---------------------------- MODULE Spec2Model ----------------------------
(***************************************************************************)
(* Observable capability adapters of browser-hooks.                        *)
(*                                                                         *)
(* Every hook keeps a snapshot `state`, a Set of listeners and an          *)
(* updateState that replaces the snapshot and walks the Set.  The module   *)
(* holds one state machine per hook that is examined; each has its own     *)
(* variables (prefixed with the hook's name) and its own specification,    *)
(* in which the other hooks are not constructed.                           *)
(***************************************************************************)
EXTENDS Integers, Sequences, FiniteSets, TLC

VARIABLES
  \* ---- useWebHID ----
  hidState,      \* the snapshot: [isSupported, devices, error]
  hidListeners,  \* the listeners Set, in insertion order
  hidPending,    \* getDevices calls suspended at `await navigator.hid.getDevices()`
  hidDead,       \* callbacks whose disposer was called since they last subscribed
  hidLast,       \* the last step: [op, cb, outcome]
  hidTrace,      \* what the last step did to subscribers: calls and disposals, in order
  \* ---- usePageVisibility ----
  visState,      \* the snapshot: [hidden, visibilityState]
  visDoc,        \* document.visibilityState
  visNative,     \* updateState is registered for 'visibilitychange' on document
  visListeners,  \* the listeners Set, in insertion order
  visDead,       \* callbacks whose disposer was called since they last subscribed
  visLast,       \* the last step: [op, cb]
  visTrace,      \* the subscriber calls of the last step
  \* ---- useFullscreen ----
  fsState,       \* the snapshot: [isSupported, isFullscreen, error]
  fsElement,     \* document.fullscreenElement is set
  fsTimer,       \* debounceTimeout holds a timer that has not fired
  fsNative,      \* handleFullscreenChange is registered on document
  fsCalls,       \* request()/exit() calls suspended at an await: <<[op, phase]>>
  fsListeners,   \* the listeners Set, in insertion order
  fsLast,        \* the last step: [op, outcome, changed]
  fsTrace,       \* the subscriber calls of the last step
  \* ---- useWebRTC ----
  rtcSupported,  \* const isSupported
  rtcState,      \* the snapshot: [isConnected, isClosed, error]
  rtcPeer,       \* peerConnection is not null
  rtcChannel,    \* dataChannel is not null
  rtcCalls,      \* async operations suspended at an await: <<[op, left]>>
  rtcLast,       \* the last step: [op, outcome, failure]
  \* ---- useIdleDetection ----
  idleState,     \* the snapshot: [isSupported, isIdle, isScreenLocked, error]
  idleDetector,  \* `detector`: 0 for null, else the id of an IdleDetector
  idleDets,      \* the IdleDetector objects created so far: <<[st, sig]>>
  idleCalls,     \* start()/requestPermission() calls suspended at an await
  idleLast,      \* the last step: [op, outcome, stoppedRunning]
  \* ---- useWakeLock ----
  wlState,       \* the snapshot: [isSupported, isActive, type, sentinel]
  wlSentinels,   \* the WakeLockSentinel objects granted so far: <<"active"|"released">>
  wlCalls,       \* requestLock() calls suspended at `await navigator.wakeLock.request`
  wlDoc,         \* document.visibilityState
  wlLost,        \* hiding the page released an active lock and none was granted since
  wlLast,        \* the last step: [op, outcome, sentinel, held]
  \* ---- useBackgroundTask ----
  bgState,       \* the snapshot: [isSupported, pendingTasks]
  bgTasks,       \* the idle callbacks requested: <<[st, sig, listening]>>
  bgAborted,     \* the abort signals that have fired
  bgLast,        \* the last step: [op, outcome, sigAborted, before]
  \* ---- useScheduler ----
  schedState,    \* the snapshot: [isSupported, activeTaskCount]
  schedCalls,    \* the postTask calls made: <<[id, phase, ctl, sig, delay, started, asked]>>
                 \* (asked: cancellation was asked for before the callback began)
  schedCtl,      \* taskControllers: task id -> the call whose controller it maps (0: none)
  schedLast,     \* the last step: [op, outcome]
  \* ---- useLocalStorage ----
  lsKey,         \* the key the adapter was made for
  lsInitial,     \* initialValue
  lsStore,       \* window.localStorage's item for the key: LsAbsent or its characters
  lsFull,        \* the storage is full: setItem throws QuotaExceededError
  lsSet,         \* the argument of the last setValue call (LsNone before the first)
  lsLast,        \* the last step: [op, result]
  \* ---- useBroadcastChannel ----
  bcState,       \* per adapter, the snapshot: [isSupported, isConnected]
  bcChannel,     \* per adapter: `channel` is not null
  bcMsgListeners,\* per adapter: the messageListeners Set, in insertion order
  bcInbox,       \* per adapter: the messages queued for its open channel
  bcPosts,       \* the number of messages posted
  bcGot,         \* per callback: the messages it was called with since it registered
  bcDue,         \* per callback: the messages other than null posted while both
                 \* callbacks listen (and those in flight to its adapter when it registered)
  bcExpect,      \* per callback: those of them that were posted through another adapter
  bcSteady,      \* per callback: its adapter's channel was open ever since it registered
  bcLast,        \* the last step: [op, adapter, outcome]
  \* ---- useClipboard ----
  clipState,     \* the snapshot: [isSupported, hasPermission]
  clipPerm,      \* the browser's 'clipboard-read' permission for the page
  clipText,      \* the text on the system clipboard
  clipCalls,     \* checkPermission()/readText() calls suspended at an await: <<[op, phase]>>
  clipLast,      \* the last step: [op, outcome, value]
  \* ---- useWebLocks ----
  lkState,       \* the snapshot: [isSupported, heldLocks, error]
  lkCalls,       \* the requestLock calls in progress: <<[name, mode, phase, timer, sig]>>
  lkMade,        \* the number of requestLock calls made
  lkQueries,     \* getLocks() calls suspended at `await navigator.locks.query()`
  lkLast,        \* the last step: [op, outcome, before, beforeNow]
  \* ---- useMediaRecorder ----
  mrState,       \* the snapshot: [isSupported, isRecording, stream, error]
  mrRecorder,    \* the closure's `recorder`: 0 for null, else the MediaRecorder
  mrCalls,       \* the start() calls suspended at an await: <<[id, phase, later]>>
  mrLive,        \* the MediaRecorder objects made and not stopped
  mrStopping,    \* the MediaRecorder objects stopped whose 'stop' event is due
  mrStreams,     \* the acquired streams whose tracks are live
  mrMade,        \* the number of start() calls made
  mrOverlap,     \* a start() went on to its awaits while another was awaiting
  mrLast,        \* the last step: [op, outcome, recorder, stopped]
  \* ---- useNetwork ----
  netState,      \* the snapshot: [isSupported, isOnline, effectiveType, error]
  netOnLine,     \* navigator.onLine
  netConn,       \* navigator.connection.effectiveType
  netChange,     \* updateNetworkInformation is registered on the connection
  netSubs,       \* the subscribed callbacks
  netCleaned,    \* cleanup() has returned
  netLast,       \* the last step: [op, updates, notified]
  \* ---- construction of an adapter ----
  ctorEnv,       \* the globals of the environment
  ctorLast,      \* the last construction: [adapter, capable, outcome, isSupported, native]
  \* ---- useMediaStream ----
  msState,       \* the snapshot: [isSupported, streams, error]
  msCalls,       \* the calls suspended at the native call: <<[op, streamId, stream]>>
  msAcquired,    \* the streams returned by getStream / getDisplayMedia
  msLive,        \* the streams that still have a live track
  msMade,        \* the number of getStream / getDisplayMedia calls made
  msLast,        \* the last step: [op, outcome]
  \* ---- useWebMIDI ----
  midiRegs,      \* the addMessageListener calls made: <<[cb, set, attached]>>
  midiSets,      \* the contents of the Set objects made for the input
  midiCur,       \* the Set messageListeners holds for the input, 0 for none
  midiLast,      \* the last step: [op, counts]; counts: calls of each callback
  \* ---- useWebNFC ----
  nfcState,      \* the snapshot: [isSupported, isReading, error]
  nfcCtl,        \* readingAbortController: 0 for null, else the controller
  nfcScans,      \* the native scans asked for: <<[sig, ctl, phase, aborted]>>
  nfcLast,       \* the last step: [op, outcome]
  \* ---- useConsole ----
  conState,      \* the snapshot: [isSupported, historyEnabled, maxHistorySize]
  conHistory,    \* the closure's `history` array: <<[type, n]>>
  conLogged,     \* the logger calls since the last clearHistory: <<[entry, enabled]>>
  conPc,         \* "idle", or "while" inside the loop of setMaxHistorySize
  conCount,      \* the number of logger calls made
  conTurns       \* the turns of the loop in the last setMaxHistorySize, modulo 2

hidVars == <<hidState, hidListeners, hidPending, hidDead, hidLast, hidTrace>>
visVars == <<visState, visDoc, visNative, visListeners, visDead, visLast, visTrace>>
fsVars == <<fsState, fsElement, fsTimer, fsNative, fsCalls, fsListeners, fsLast, fsTrace>>
rtcVars == <<rtcSupported, rtcState, rtcPeer, rtcChannel, rtcCalls, rtcLast>>
idleVars == <<idleState, idleDetector, idleDets, idleCalls, idleLast>>
wlVars == <<wlState, wlSentinels, wlCalls, wlDoc, wlLost, wlLast>>
bgVars == <<bgState, bgTasks, bgAborted, bgLast>>
schedVars == <<schedState, schedCalls, schedCtl, schedLast>>
lsVars == <<lsKey, lsInitial, lsStore, lsFull, lsSet, lsLast>>
bcVars == <<bcState, bcChannel, bcMsgListeners, bcInbox, bcPosts, bcGot, bcDue,
            bcExpect, bcSteady, bcLast>>
clipVars == <<clipState, clipPerm, clipText, clipCalls, clipLast>>
lkVars == <<lkState, lkCalls, lkMade, lkQueries, lkLast>>
mrVars == <<mrState, mrRecorder, mrCalls, mrLive, mrStopping, mrStreams, mrMade,
           mrOverlap, mrLast>>
netVars == <<netState, netOnLine, netConn, netChange, netSubs, netCleaned, netLast>>
ctorVars == <<ctorEnv, ctorLast>>
msVars == <<msState, msCalls, msAcquired, msLive, msMade, msLast>>
midiVars == <<midiRegs, midiSets, midiCur, midiLast>>
nfcVars == <<nfcState, nfcCtl, nfcScans, nfcLast>>
conVars == <<conState, conHistory, conLogged, conPc, conCount, conTurns>>

vars == <<hidVars, visVars, fsVars, rtcVars, idleVars, wlVars, bgVars,
  schedVars, lsVars, bcVars, clipVars, lkVars, mrVars, netVars, ctorVars,
  msVars, midiVars, nfcVars, conVars>>

\* What a step of one hook leaves alone: the variables of the other hooks.
hidOthers == <<visVars, fsVars, rtcVars, idleVars, wlVars, bgVars, schedVars,
  lsVars, bcVars, clipVars, lkVars, mrVars, netVars, ctorVars, msVars,
  midiVars, nfcVars, conVars>>
visOthers == <<hidVars, fsVars, rtcVars, idleVars, wlVars, bgVars, schedVars,
  lsVars, bcVars, clipVars, lkVars, mrVars, netVars, ctorVars, msVars,
  midiVars, nfcVars, conVars>>
fsOthers == <<hidVars, visVars, rtcVars, idleVars, wlVars, bgVars, schedVars,
  lsVars, bcVars, clipVars, lkVars, mrVars, netVars, ctorVars, msVars,
  midiVars, nfcVars, conVars>>
rtcOthers == <<hidVars, visVars, fsVars, idleVars, wlVars, bgVars, schedVars,
  lsVars, bcVars, clipVars, lkVars, mrVars, netVars, ctorVars, msVars,
  midiVars, nfcVars, conVars>>
idleOthers == <<hidVars, visVars, fsVars, rtcVars, wlVars, bgVars, schedVars,
  lsVars, bcVars, clipVars, lkVars, mrVars, netVars, ctorVars, msVars,
  midiVars, nfcVars, conVars>>
wlOthers == <<hidVars, visVars, fsVars, rtcVars, idleVars, bgVars, schedVars,
  lsVars, bcVars, clipVars, lkVars, mrVars, netVars, ctorVars, msVars,
  midiVars, nfcVars, conVars>>
bgOthers == <<hidVars, visVars, fsVars, rtcVars, idleVars, wlVars, schedVars,
  lsVars, bcVars, clipVars, lkVars, mrVars, netVars, ctorVars, msVars,
  midiVars, nfcVars, conVars>>
schedOthers == <<hidVars, visVars, fsVars, rtcVars, idleVars, wlVars, bgVars,
  lsVars, bcVars, clipVars, lkVars, mrVars, netVars, ctorVars, msVars,
  midiVars, nfcVars, conVars>>
lsOthers == <<hidVars, visVars, fsVars, rtcVars, idleVars, wlVars, bgVars,
  schedVars, bcVars, clipVars, lkVars, mrVars, netVars, ctorVars, msVars,
  midiVars, nfcVars, conVars>>
bcOthers == <<hidVars, visVars, fsVars, rtcVars, idleVars, wlVars, bgVars,
  schedVars, lsVars, clipVars, lkVars, mrVars, netVars, ctorVars, msVars,
  midiVars, nfcVars, conVars>>
clipOthers == <<hidVars, visVars, fsVars, rtcVars, idleVars, wlVars, bgVars,
  schedVars, lsVars, bcVars, lkVars, mrVars, netVars, ctorVars, msVars,
  midiVars, nfcVars, conVars>>
lkOthers == <<hidVars, visVars, fsVars, rtcVars, idleVars, wlVars, bgVars,
  schedVars, lsVars, bcVars, clipVars, mrVars, netVars, ctorVars, msVars,
  midiVars, nfcVars, conVars>>
mrOthers == <<hidVars, visVars, fsVars, rtcVars, idleVars, wlVars, bgVars,
  schedVars, lsVars, bcVars, clipVars, lkVars, netVars, ctorVars, msVars,
  midiVars, nfcVars, conVars>>
netOthers == <<hidVars, visVars, fsVars, rtcVars, idleVars, wlVars, bgVars,
  schedVars, lsVars, bcVars, clipVars, lkVars, mrVars, ctorVars, msVars,
  midiVars, nfcVars, conVars>>
ctorOthers == <<hidVars, visVars, fsVars, rtcVars, idleVars, wlVars, bgVars,
  schedVars, lsVars, bcVars, clipVars, lkVars, mrVars, netVars, msVars,
  midiVars, nfcVars, conVars>>
msOthers == <<hidVars, visVars, fsVars, rtcVars, idleVars, wlVars, bgVars,
  schedVars, lsVars, bcVars, clipVars, lkVars, mrVars, netVars, ctorVars,
  midiVars, nfcVars, conVars>>
midiOthers == <<hidVars, visVars, fsVars, rtcVars, idleVars, wlVars, bgVars,
  schedVars, lsVars, bcVars, clipVars, lkVars, mrVars, netVars, ctorVars,
  msVars, nfcVars, conVars>>
nfcOthers == <<hidVars, visVars, fsVars, rtcVars, idleVars, wlVars, bgVars,
  schedVars, lsVars, bcVars, clipVars, lkVars, mrVars, netVars, ctorVars,
  msVars, midiVars, conVars>>
conOthers == <<hidVars, visVars, fsVars, rtcVars, idleVars, wlVars, bgVars,
  schedVars, lsVars, bcVars, clipVars, lkVars, mrVars, netVars, ctorVars,
  msVars, midiVars, nfcVars>>

(***************************************************************************)
(* Bounds and input sets.                                                  *)
(***************************************************************************)
Callbacks == {"A", "B", "C"}      \* subscriber callbacks (function identities)
Devices == {"d1"}                 \* HID devices the platform may report
Errors == {"E1", "E2"}            \* distinct native Error objects
NoError == "null"
MaxDevices == 2                   \* longest state.devices array explored
MaxPending == 2                   \* most calls suspended at an await at once
MaxDetectors == 2                 \* most IdleDetector objects created
MaxSentinels == 3                 \* most WakeLockSentinel objects granted
MaxTasks == 3                     \* most tasks handed to useBackgroundTask
MaxPosts == 2                     \* most postTask calls made on useScheduler
MaxStr == 1                       \* longest string value stored
MaxArr == 1                       \* longest array value stored
MaxMsgs == 2                      \* most messages posted on the broadcast channel
MaxLocks == 2                     \* most requestLock calls made on useWebLocks
MaxStarts == 3                    \* most start() calls made on useMediaRecorder
MaxStreams == 3                   \* most getStream / getDisplayMedia calls on useMediaStream
MaxRegs == 3                      \* most addMessageListener calls on useWebMIDI
MaxScans == 3                     \* most startScanning calls on useWebNFC
MaxLogs == 3                      \* most logger calls on useConsole
MaxSize == 2                      \* largest maxHistorySize

Range(s) == {s[i] : i \in 1..Len(s)}

NoDupSeqs(S, n) ==
  {s \in UNION {[1..k -> S] : k \in 0..n} : \A i, j \in 1..Len(s) : i # j => s[i] # s[j]}

(***************************************************************************)
(* The listener registry shared by every hook (a JavaScript Set).          *)
(***************************************************************************)
\* listeners.add(callback): a Set keeps the first insertion's position.
SetAdd(ls, cb) == IF cb \in Range(ls) THEN ls ELSE Append(ls, cb)

\* listeners.delete(callback)
SetDelete(ls, cb) == SelectSeq(ls, LAMBDA x : x # cb)

CallEv(cb, snap) == [t |-> "call", cb |-> cb, snap |-> snap]
DisposeEv(cb) == [t |-> "dispose", cb |-> cb]

\* The disposers one invocation of a callback may call: none, or one disposer
\* that exists (of a callback that is or was registered).  dom are the
\* callbacks that can be invoked in the step.
KillChoices(dom, known) == [dom -> {{}} \cup {{x} : x \in known}]

\* The events of calling the disposers in K, in some fixed order.
RECURSIVE DisposeEvents(_)
DisposeEvents(K) ==
  IF K = {} THEN <<>>
  ELSE LET x == CHOOSE y \in K : TRUE
       IN <<DisposeEv(x)>> \o DisposeEvents(K \ {x})

\* Set.prototype.forEach: entries are visited in insertion order; an entry
\* deleted before it is reached is not visited.  kill[cb] are the disposers
\* the callback cb calls while it runs.
RECURSIVE ForEachFrom(_, _, _, _, _)
ForEachFrom(ls, i, snap, kill, trace) ==
  IF i > Len(ls) THEN [ls |-> ls, trace |-> trace]
  ELSE LET e == ls[i]
           K == kill[e]
           kept == SelectSeq(ls, LAMBDA x : x \notin K)
           before == Cardinality({j \in 1..i : ls[j] \notin K})
       IN ForEachFrom(kept, before + 1, snap, kill,
                      trace \o <<CallEv(e, snap)>> \o DisposeEvents(K))

\* A forEach over a copy of the Set taken when the walk starts: an entry
\* deleted during the walk is still visited.
RECURSIVE ForEachCopyFrom(_, _, _, _, _)
ForEachCopyFrom(ls, i, snap, kill, trace) ==
  IF i > Len(ls) THEN [ls |-> ls, trace |-> trace]
  ELSE ForEachCopyFrom(ls, i + 1, snap, kill,
                       trace \o <<CallEv(ls[i], snap)>> \o DisposeEvents(kill[ls[i]]))

NotifyCopy(ls, snap, kill) ==
  LET r == ForEachCopyFrom(ls, 1, snap, kill, <<>>)
  IN [ls |-> SelectSeq(ls, LAMBDA x : \A c \in Range(ls) : x \notin kill[c]),
      trace |-> r.trace]

\* listeners.forEach(listener => listener(state))
Notify(ls, snap, kill) == ForEachFrom(ls, 1, snap, kill, <<>>)

\* The callbacks whose disposer is called in a trace.
Disposed(trace) == {trace[i].cb : i \in {j \in 1..Len(trace) : trace[j].t = "dispose"}}

(***************************************************************************)
(* useWebHID                                                               *)
(***************************************************************************)
HidKnown == Range(hidListeners) \cup hidDead

HidKills == KillChoices(Range(hidListeners), HidKnown)

\* updateState(newState) followed by the bookkeeping of the step.
HidUpdate(newState, kill, op, cb, outcome) ==
  LET r == Notify(hidListeners, newState, kill)
  IN /\ hidState' = newState
     /\ hidListeners' = r.ls
     /\ hidTrace' = r.trace
     /\ hidDead' = hidDead \cup {x \in Disposed(r.trace) : x \in HidKnown}
     /\ hidLast' = [op |-> op, cb |-> cb, outcome |-> outcome]

\* subscribe(callback) without the replay call.
HidSubscribeNoReplay(cb, kill) ==
  /\ hidListeners' = SetAdd(hidListeners, cb)
  /\ hidTrace' = <<>>
  /\ hidDead' = hidDead \ {cb}
  /\ hidLast' = [op |-> "subscribe", cb |-> cb, outcome |-> "returned"]
  /\ UNCHANGED <<hidState, hidPending>>

\* subscribe(callback): add, replay the current snapshot, return the disposer.
\* The callback cannot call its own disposer during the replay (it is not
\* returned yet), only disposers that exist already.
HidSubscribe(cb, kill) ==
  LET added == SetAdd(hidListeners, cb)
      K == kill[cb] \ (IF cb \in HidKnown THEN {} ELSE {cb})
  IN /\ hidListeners' = SelectSeq(added, LAMBDA x : x \notin K)
     /\ hidTrace' = <<CallEv(cb, hidState)>> \o DisposeEvents(K)
     /\ hidDead' = (hidDead \ {cb}) \cup K
     /\ hidLast' = [op |-> "subscribe", cb |-> cb, outcome |-> "returned"]
     /\ UNCHANGED <<hidState, hidPending>>

\* The disposer returned by subscribe, called outside a notification.
HidDispose(cb) ==
  /\ cb \in HidKnown
  /\ hidListeners' = SetDelete(hidListeners, cb)
  /\ hidTrace' = <<DisposeEv(cb)>>
  /\ hidDead' = hidDead \cup {cb}
  /\ hidLast' = [op |-> "dispose", cb |-> cb, outcome |-> "returned"]
  /\ UNCHANGED <<hidState, hidPending>>

\* getDevices(): not supported -> throws before touching navigator.hid.
HidGetDevicesUnsupported ==
  /\ ~hidState.isSupported
  /\ hidTrace' = <<>>
  /\ hidLast' = [op |-> "getDevices", cb |-> "-", outcome |-> "rejected:unsupported"]
  /\ UNCHANGED <<hidState, hidListeners, hidPending, hidDead>>

\* getDevices() up to `await navigator.hid.getDevices()`: clearError().
HidGetDevicesStart(kill) ==
  /\ hidState.isSupported
  /\ hidPending < MaxPending
  /\ hidPending' = hidPending + 1
  /\ HidUpdate([hidState EXCEPT !.error = NoError], kill, "getDevices", "-", "awaiting")

\* The native promise resolves: updateState({ devices }); return devices.
HidGetDevicesResolve(devices, kill) ==
  /\ hidPending > 0
  /\ hidPending' = hidPending - 1
  /\ HidUpdate([hidState EXCEPT !.devices = devices], kill, "getDevices", "-", "resolved")

\* The native promise rejects: setError(error); throw error.
HidGetDevicesReject(err, kill) ==
  /\ hidPending > 0
  /\ hidPending' = hidPending - 1
  /\ HidUpdate([hidState EXCEPT !.error = err], kill, "getDevices", "-", "rejected:native")

\* navigator.hid 'connect' event.
HidConnect(d, kill) ==
  /\ hidState.isSupported
  /\ Len(hidState.devices) < MaxDevices
  /\ UNCHANGED hidPending
  /\ HidUpdate([hidState EXCEPT !.devices = Append(@, d)], kill, "connect", "-", "event")

\* navigator.hid 'disconnect' event.
HidDisconnect(d, kill) ==
  /\ hidState.isSupported
  /\ UNCHANGED hidPending
  /\ HidUpdate([hidState EXCEPT !.devices = SelectSeq(@, LAMBDA x : x # d)],
               kill, "disconnect", "-", "event")

\* The constructor starts getDevices() when the API is supported.
HidInit ==
  /\ hidState \in [isSupported : BOOLEAN, devices : {<<>>}, error : {NoError}]
  /\ hidListeners = <<>>
  /\ hidPending = (IF hidState.isSupported THEN 1 ELSE 0)
  /\ hidDead = {}
  /\ hidLast = [op |-> "construct", cb |-> "-", outcome |-> "returned"]
  /\ hidTrace = <<>>

HidNext ==
  \/ \E cb \in Callbacks : \E kill \in KillChoices({cb}, HidKnown) :
       HidSubscribe(cb, kill) /\ UNCHANGED hidOthers
  \/ \E cb \in Callbacks : HidDispose(cb) /\ UNCHANGED hidOthers
  \/ HidGetDevicesUnsupported /\ UNCHANGED hidOthers
  \/ \E kill \in HidKills : HidGetDevicesStart(kill) /\ UNCHANGED hidOthers
  \/ \E devices \in NoDupSeqs(Devices, MaxDevices), kill \in HidKills :
       HidGetDevicesResolve(devices, kill) /\ UNCHANGED hidOthers
  \/ \E err \in Errors, kill \in HidKills : HidGetDevicesReject(err, kill) /\ UNCHANGED hidOthers
  \/ \E d \in Devices, kill \in HidKills : HidConnect(d, kill) /\ UNCHANGED hidOthers
  \/ \E d \in Devices, kill \in HidKills : HidDisconnect(d, kill) /\ UNCHANGED hidOthers

(***************************************************************************)
(* Hooks whose subscribers are passive: a callback only records the        *)
(* snapshot it is given.                                                   *)
(***************************************************************************)
NoKill(ls) == [x \in Range(ls) |-> {}]

\* listeners.forEach(listener => listener(state)) with passive callbacks.
NotifyAll(ls, snap) == Notify(ls, snap, NoKill(ls)).trace

\* The callbacks a trace invokes, in order.
CalledCbs(trace) ==
  LET calls == SelectSeq(trace, LAMBDA e : e.t = "call")
  IN [i \in 1..Len(calls) |-> calls[i].cb]

(***************************************************************************)
(* usePageVisibility                                                       *)
(***************************************************************************)
VisSnapshot(doc) == [hidden |-> (doc = "hidden"), visibilityState |-> doc]

\* subscribe(callback)
VisSubscribe(cb) ==
  /\ visListeners' = SetAdd(visListeners, cb)
  /\ visTrace' = <<CallEv(cb, visState)>>
  /\ visDead' = visDead \ {cb}
  /\ visLast' = [op |-> "subscribe", cb |-> cb]
  /\ UNCHANGED <<visState, visDoc, visNative>>

\* The disposer: listeners.delete(callback) and
\* document.removeEventListener("visibilitychange", updateState).
VisDispose(cb) ==
  /\ cb \in Range(visListeners) \cup visDead
  /\ visListeners' = SetDelete(visListeners, cb)
  /\ visNative' = FALSE
  /\ visDead' = visDead \cup {cb}
  /\ visTrace' = <<DisposeEv(cb)>>
  /\ visLast' = [op |-> "dispose", cb |-> cb]
  /\ UNCHANGED <<visState, visDoc>>

\* The page changes visibility and the browser fires 'visibilitychange';
\* updateState runs only while it is registered.
VisChange(doc) ==
  /\ doc # visDoc
  /\ visDoc' = doc
  /\ IF visNative
       THEN /\ visState' = VisSnapshot(doc)
            /\ visTrace' = NotifyAll(visListeners, VisSnapshot(doc))
       ELSE /\ visState' = visState
            /\ visTrace' = <<>>
  /\ visLast' = [op |-> "visibilitychange", cb |-> "-"]
  /\ UNCHANGED <<visNative, visListeners, visDead>>

VisInit ==
  /\ visDoc = "visible"
  /\ visState = VisSnapshot("visible")
  /\ visNative = TRUE
  /\ visListeners = <<>>
  /\ visDead = {}
  /\ visLast = [op |-> "construct", cb |-> "-"]
  /\ visTrace = <<>>

VisNext ==
  \/ \E cb \in Callbacks : VisSubscribe(cb) /\ UNCHANGED visOthers
  \/ \E cb \in Callbacks : VisDispose(cb) /\ UNCHANGED visOthers
  \/ \E doc \in {"visible", "hidden"} : VisChange(doc) /\ UNCHANGED visOthers

(***************************************************************************)
(* useFullscreen                                                           *)
(***************************************************************************)
RemoveAt(s, i) == [j \in 1..(Len(s) - 1) |-> IF j < i THEN s[j] ELSE s[j + 1]]

\* JSON.stringify(state): an Error has no enumerable own property, so every
\* Error serialises to {}.
FsJson(st) ==
  [isSupported |-> st.isSupported, isFullscreen |-> st.isFullscreen,
   error |-> IF st.error = NoError THEN "null" ELSE "{}"]


\* The serialisation updateState compares the old and the new snapshot by.
FsCompareKey(st) == FsJson(st)

\* updateState(newState): listeners are notified only if the serialised
\* snapshot differs from the old one.
FsUpdate(newState, op, outcome) ==
  /\ fsState' = newState
  /\ fsTrace' = IF FsCompareKey(fsState) # FsCompareKey(newState)
                  THEN NotifyAll(fsListeners, newState)
                  ELSE <<>>
  /\ fsLast' = [op |-> op, outcome |-> outcome, changed |-> (newState # fsState)]

FsQuiet(op, outcome) ==
  /\ fsTrace' = <<>>
  /\ fsLast' = [op |-> op, outcome |-> outcome, changed |-> FALSE]

\* subscribe(callback)
FsSubscribe(cb) ==
  /\ fsListeners' = SetAdd(fsListeners, cb)
  /\ fsTrace' = <<CallEv(cb, fsState)>>
  /\ fsLast' = [op |-> "subscribe", outcome |-> "returned", changed |-> FALSE]
  /\ UNCHANGED <<fsState, fsElement, fsTimer, fsNative, fsCalls>>

\* The disposer returned by subscribe.
FsDispose(cb) ==
  /\ cb \in Range(fsListeners)
  /\ fsListeners' = SetDelete(fsListeners, cb)
  /\ FsQuiet("dispose", "returned")
  /\ UNCHANGED <<fsState, fsElement, fsTimer, fsNative, fsCalls>>

\* request()/exit() when the API is missing: throws.
FsUnsupported(op) ==
  /\ ~fsState.isSupported
  /\ FsQuiet(op, "rejected:unsupported")
  /\ UNCHANGED <<fsState, fsElement, fsTimer, fsNative, fsCalls, fsListeners>>

\* request() while the element is fullscreen, exit() while nothing is:
\* `return true` before the try block.
FsNothingToDo(op) ==
  /\ fsState.isSupported
  /\ (op = "request") = fsElement
  /\ FsQuiet(op, "resolved:true")
  /\ UNCHANGED <<fsState, fsElement, fsTimer, fsNative, fsCalls, fsListeners>>

\* request()/exit() up to the await of the native call: clearError().
FsStart(op) ==
  /\ fsState.isSupported
  /\ (op = "request") = ~fsElement
  /\ Len(fsCalls) < MaxPending
  /\ fsCalls' = Append(fsCalls, [op |-> op, phase |-> "native"])
  /\ FsUpdate([fsState EXCEPT !.error = NoError], op, "awaiting")
  /\ UNCHANGED <<fsElement, fsTimer, fsNative, fsListeners>>

\* handleFullscreenChange -> debouncedCheckState: (re)arm the 50 ms timer.
FsAfterEvent(fired) == IF fired /\ fsNative THEN TRUE ELSE fsTimer

\* The native promise resolves; the platform has switched and fired
\* 'fullscreenchange' if the fullscreen element changed.  The call goes on
\* to `await new Promise(resolve => setTimeout(resolve, 100))`.
FsNativeResolve(i) ==
  /\ i \in 1..Len(fsCalls)
  /\ fsCalls[i].phase = "native"
  /\ fsElement' = (fsCalls[i].op = "request")
  /\ fsTimer' = FsAfterEvent(fsElement' # fsElement)
  /\ fsCalls' = [fsCalls EXCEPT ![i].phase = "settle"]
  /\ FsQuiet(fsCalls[i].op, "awaiting")
  /\ UNCHANGED <<fsState, fsNative, fsListeners>>

\* The native promise rejects: setError(error); throw error.
FsNativeReject(i, err) ==
  /\ i \in 1..Len(fsCalls)
  /\ fsCalls[i].phase = "native"
  /\ fsCalls' = RemoveAt(fsCalls, i)
  /\ FsUpdate([fsState EXCEPT !.error = err], fsCalls[i].op, "rejected:native")
  /\ UNCHANGED <<fsElement, fsTimer, fsNative, fsListeners>>

\* The 100 ms wait is over: return checkFullscreenState().
FsSettle(i) ==
  /\ i \in 1..Len(fsCalls)
  /\ fsCalls[i].phase = "settle"
  /\ fsCalls' = RemoveAt(fsCalls, i)
  /\ FsUpdate([fsState EXCEPT !.isFullscreen = fsElement], fsCalls[i].op, "resolved")
  /\ UNCHANGED <<fsElement, fsTimer, fsNative, fsListeners>>

\* The user leaves fullscreen (Esc): the platform fires 'fullscreenchange'.
FsUserExit ==
  /\ fsElement
  /\ fsElement' = FALSE
  /\ fsTimer' = FsAfterEvent(TRUE)
  /\ FsQuiet("fullscreenchange", "event")
  /\ UNCHANGED <<fsState, fsNative, fsCalls, fsListeners>>

\* The debounce timer fires: checkFullscreenState(); debounceTimeout = null.
FsDebounceFire ==
  /\ fsTimer
  /\ fsTimer' = FALSE
  /\ FsUpdate([fsState EXCEPT !.isFullscreen = fsElement], "debounce", "event")
  /\ UNCHANGED <<fsElement, fsNative, fsCalls, fsListeners>>

\* cleanup(): remove the document listeners, clear the debounce timer.
FsCleanup ==
  /\ fsNative' = FALSE
  /\ fsTimer' = FALSE
  /\ FsQuiet("cleanup", "returned")
  /\ UNCHANGED <<fsState, fsElement, fsCalls, fsListeners>>

\* The constructor registers the listeners and runs checkFullscreenState().
FsInit ==
  /\ fsState \in [isSupported : BOOLEAN, isFullscreen : {FALSE}, error : {NoError}]
  /\ fsElement = FALSE
  /\ fsTimer = FALSE
  /\ fsNative = TRUE
  /\ fsCalls = <<>>
  /\ fsListeners = <<>>
  /\ fsLast = [op |-> "construct", outcome |-> "returned", changed |-> FALSE]
  /\ fsTrace = <<>>

FsNext ==
  \/ \E cb \in Callbacks : FsSubscribe(cb) /\ UNCHANGED fsOthers
  \/ \E cb \in Callbacks : FsDispose(cb) /\ UNCHANGED fsOthers
  \/ \E op \in {"request", "exit"} : FsUnsupported(op) /\ UNCHANGED fsOthers
  \/ \E op \in {"request", "exit"} : FsNothingToDo(op) /\ UNCHANGED fsOthers
  \/ \E op \in {"request", "exit"} : FsStart(op) /\ UNCHANGED fsOthers
  \/ \E i \in 1..MaxPending : FsNativeResolve(i) /\ UNCHANGED fsOthers
  \/ \E i \in 1..MaxPending, err \in Errors : FsNativeReject(i, err) /\ UNCHANGED fsOthers
  \/ \E i \in 1..MaxPending : FsSettle(i) /\ UNCHANGED fsOthers
  \/ FsUserExit /\ UNCHANGED fsOthers
  \/ FsDebounceFire /\ UNCHANGED fsOthers
  \/ FsCleanup /\ UNCHANGED fsOthers

(***************************************************************************)
(* useWebRTC                                                               *)
(***************************************************************************)
TypeErr == "TypeError"      \* thrown by a method call on a null peerConnection

\* The awaits of each async operation.
RtcAwaits(op) ==
  CASE op = "createOffer" -> 2       \* createOffer, setLocalDescription
    [] op = "createAnswer" -> 3      \* setRemoteDescription, createAnswer, setLocalDescription
    [] op = "addIceCandidate" -> 1

RtcOps == {"createOffer", "createAnswer", "addIceCandidate"}

RtcDone(op, outcome, failure) ==
  rtcLast' = [op |-> op, outcome |-> outcome, failure |-> failure]

\* createPeerConnection() without the API: return null.
RtcCreateUnsupported ==
  /\ ~rtcSupported
  /\ RtcDone("createPeerConnection", "returned:fallback", NoError)
  /\ UNCHANGED <<rtcSupported, rtcState, rtcPeer, rtcChannel, rtcCalls>>

\* createPeerConnection(): new RTCPeerConnection(config) and its handlers.
RtcCreatePeerConnection ==
  /\ rtcSupported
  /\ rtcPeer' = TRUE
  /\ RtcDone("createPeerConnection", "returned:value", NoError)
  /\ UNCHANGED <<rtcSupported, rtcState, rtcChannel, rtcCalls>>

\* createPeerConnection(): the constructor throws; the error is recorded.
RtcCreateThrows(err) ==
  /\ rtcSupported
  /\ rtcState' = [rtcState EXCEPT !.error = err]
  /\ RtcDone("createPeerConnection", "returned:fallback", err)
  /\ UNCHANGED <<rtcSupported, rtcPeer, rtcChannel, rtcCalls>>

\* peerConnection.oniceconnectionstatechange
RtcIceChange(ice) ==
  /\ rtcPeer
  /\ rtcState' = [rtcState EXCEPT !.isConnected = (ice = "connected"),
                                  !.isClosed = (ice = "closed")]
  /\ RtcDone("iceconnectionstatechange", "event", NoError)
  /\ UNCHANGED <<rtcSupported, rtcPeer, rtcChannel, rtcCalls>>

\* createOffer/createAnswer/addIceCandidate with no peer connection:
\* return null (false) without a native call.
RtcNoPeer(op) ==
  /\ ~rtcPeer
  /\ RtcDone(op, "resolved:fallback", NoError)
  /\ UNCHANGED <<rtcSupported, rtcState, rtcPeer, rtcChannel, rtcCalls>>

\* An async operation up to its first await: the native call is issued.
RtcStart(op) ==
  /\ rtcPeer
  /\ Len(rtcCalls) < MaxPending
  /\ rtcCalls' = Append(rtcCalls, [op |-> op, left |-> RtcAwaits(op)])
  /\ RtcDone(op, "started", NoError)
  /\ UNCHANGED <<rtcSupported, rtcState, rtcPeer, rtcChannel>>

\* catch (error) { updateState({ error }); return null; }
RtcCatch(op, err) ==
  /\ rtcState' = [rtcState EXCEPT !.error = err]
  /\ RtcDone(op, "resolved:fallback", err)

\* An awaited native promise resolves.  The next statement calls a method
\* of peerConnection, which close() may have set to null in the meantime.
RtcResolve(i) ==
  /\ i \in 1..Len(rtcCalls)
  /\ LET c == rtcCalls[i]
     IN IF c.left = 1
          THEN /\ rtcCalls' = RemoveAt(rtcCalls, i)
               /\ rtcState' = rtcState
               /\ RtcDone(c.op, "resolved:value", NoError)
          ELSE IF rtcPeer
            THEN /\ rtcCalls' = [rtcCalls EXCEPT ![i].left = c.left - 1]
                 /\ rtcState' = rtcState
                 /\ RtcDone(c.op, "awaiting", NoError)
            ELSE /\ rtcCalls' = RemoveAt(rtcCalls, i)
                 /\ RtcCatch(c.op, TypeErr)
  /\ UNCHANGED <<rtcSupported, rtcPeer, rtcChannel>>

\* An awaited native promise rejects.
RtcReject(i, err) ==
  /\ i \in 1..Len(rtcCalls)
  /\ rtcCalls' = RemoveAt(rtcCalls, i)
  /\ RtcCatch(rtcCalls[i].op, err)
  /\ UNCHANGED <<rtcSupported, rtcPeer, rtcChannel>>

\* createDataChannel(label, options)
RtcCreateDataChannel ==
  /\ IF rtcPeer
       THEN /\ rtcChannel' = TRUE
            /\ RtcDone("createDataChannel", "returned:value", NoError)
       ELSE /\ rtcChannel' = rtcChannel
            /\ RtcDone("createDataChannel", "returned:fallback", NoError)
  /\ UNCHANGED <<rtcSupported, rtcState, rtcPeer, rtcCalls>>

\* createDataChannel throws: the error is recorded, null returned.
RtcCreateDataChannelThrows(err) ==
  /\ rtcPeer
  /\ rtcState' = [rtcState EXCEPT !.error = err]
  /\ RtcDone("createDataChannel", "returned:fallback", err)
  /\ UNCHANGED <<rtcSupported, rtcPeer, rtcChannel, rtcCalls>>

\* close()
RtcClose ==
  /\ rtcChannel' = FALSE
  /\ rtcPeer' = FALSE
  /\ rtcState' = [isConnected |-> FALSE, isClosed |-> TRUE, error |-> NoError]
  /\ RtcDone("close", "returned", NoError)
  /\ UNCHANGED <<rtcSupported, rtcCalls>>

RtcInit ==
  /\ rtcSupported \in BOOLEAN
  /\ rtcState = [isConnected |-> FALSE, isClosed |-> FALSE, error |-> NoError]
  /\ rtcPeer = FALSE
  /\ rtcChannel = FALSE
  /\ rtcCalls = <<>>
  /\ rtcLast = [op |-> "construct", outcome |-> "returned", failure |-> NoError]

(***************************************************************************)
(* useIdleDetection                                                        *)
(***************************************************************************)
AbortErr == "AbortError"        \* the DOMException of an aborted signal
PermErr == "PermissionError"    \* Error('Idle Detection permission not granted')
Signals == {"none", "live", "aborted"}   \* options.signal of one call

IdleDone(op, outcome, stoppedRunning) ==
  idleLast' = [op |-> op, outcome |-> outcome, stoppedRunning |-> stoppedRunning]

\* setError(error): recorded in the snapshot.
IdleSetError(err) == idleState' = [idleState EXCEPT !.error = err]

\* start()/requestPermission() without the API: throws.
IdleUnsupported(op) ==
  /\ ~idleState.isSupported
  /\ IdleDone(op, "rejected:unsupported", FALSE)
  /\ UNCHANGED <<idleState, idleDetector, idleDets, idleCalls>>

\* start(options) or requestPermission() up to
\* `await navigator.permissions.query(...)`: clearError().
IdleBegin(op, sig) ==
  /\ idleState.isSupported
  /\ Len(idleCalls) < MaxPending
  /\ op = "requestPermission" => sig = "none"
  /\ idleCalls' = Append(idleCalls, [op |-> op, phase |-> "query", det |-> 0, sig |-> sig])
  /\ idleState' = [idleState EXCEPT !.error = NoError]
  /\ IdleDone(op, "awaiting", FALSE)
  /\ UNCHANGED <<idleDetector, idleDets>>

\* The rest of stop() once `detector` is known to be set: detector.stop(),
\* detector = null, updateState.
IdleStopBody ==
  /\ idleDets' = [idleDets EXCEPT ![idleDetector].st = "stopped"]
  /\ idleDetector' = 0
  /\ idleState' = [idleState EXCEPT !.isIdle = FALSE, !.isScreenLocked = FALSE]

\* start() after the permission is granted and no detector is left:
\* detector = new IdleDetector(); await detector.start({threshold, signal}).
IdleCreate(i) ==
  /\ Len(idleDets) < MaxDetectors
  /\ idleDets' = Append(idleDets, [st |-> "starting", sig |-> idleCalls[i].sig])
  /\ idleDetector' = Len(idleDets) + 1
  /\ idleCalls' = [idleCalls EXCEPT ![i].phase = "starting", ![i].det = Len(idleDets) + 1]
  /\ idleState' = idleState
  /\ IdleDone("start", "awaiting", FALSE)

\* start() once requestPermission() has returned `perm`.  stopErr is what
\* detector.stop() throws, NoError if it returns.
IdleAfterPermission(i, perm, stopErr) ==
  IF perm # "granted"
    THEN /\ idleCalls' = RemoveAt(idleCalls, i)
         /\ IdleSetError(PermErr)
         /\ IdleDone("start", "rejected:permission", FALSE)
         /\ UNCHANGED <<idleDetector, idleDets>>
    ELSE IF idleDetector # 0
      THEN IF stopErr = NoError
             THEN \* Stop any existing detector: await stop()
                  /\ IdleStopBody
                  /\ idleCalls' = [idleCalls EXCEPT ![i].phase = "afterStop"]
                  /\ IdleDone("start", "awaiting", idleDets[idleDetector].st = "running")
             ELSE \* stop() records the error and rethrows; so does start()
                  /\ idleCalls' = RemoveAt(idleCalls, i)
                  /\ IdleSetError(stopErr)
                  /\ IdleDone("start", "rejected:native", FALSE)
                  /\ UNCHANGED <<idleDetector, idleDets>>
      ELSE IdleCreate(i)

\* A permission promise resolves with `perm`; requestPermission() returns it
\* unless the query said 'prompt', and start() goes on with it.
IdlePermission(i, perm, stopErr) ==
  /\ i \in 1..Len(idleCalls)
  /\ LET c == idleCalls[i]
     IN /\ c.phase \in {"query", "prompt"}
        /\ c.phase = "prompt" => perm # "prompt"
        /\ stopErr # NoError => (c.op = "start" /\ perm = "granted" /\ idleDetector # 0)
        /\ IF perm = "prompt"
             THEN /\ idleCalls' = [idleCalls EXCEPT ![i].phase = "prompt"]
                  /\ IdleDone(c.op, "awaiting", FALSE)
                  /\ UNCHANGED <<idleState, idleDetector, idleDets>>
             ELSE IF c.op = "requestPermission"
               THEN /\ idleCalls' = RemoveAt(idleCalls, i)
                    /\ IdleDone(c.op, "resolved", FALSE)
                    /\ UNCHANGED <<idleState, idleDetector, idleDets>>
               ELSE IdleAfterPermission(i, perm, stopErr)

\* A permission promise rejects: setError(error); throw error (in
\* requestPermission and again in start's catch).
IdlePermissionFails(i, err) ==
  /\ i \in 1..Len(idleCalls)
  /\ idleCalls[i].phase \in {"query", "prompt"}
  /\ idleCalls' = RemoveAt(idleCalls, i)
  /\ IdleSetError(err)
  /\ IdleDone(idleCalls[i].op, "rejected:native", FALSE)
  /\ UNCHANGED <<idleDetector, idleDets>>

\* start() resumes after `await stop()`.
IdleAfterStop(i) ==
  /\ i \in 1..Len(idleCalls)
  /\ idleCalls[i].phase = "afterStop"
  /\ IdleCreate(i)

\* detector.start() resolves (its signal is not aborted); start() reads
\* detector.userState, which throws if `detector` is null by now.
IdleStarted(i) ==
  /\ i \in 1..Len(idleCalls)
  /\ LET c == idleCalls[i]
     IN /\ c.phase = "starting"
        /\ c.sig # "aborted"
        /\ idleCalls' = RemoveAt(idleCalls, i)
        /\ idleDets' = [idleDets EXCEPT ![c.det].st =
                          IF @ = "starting" THEN "running" ELSE @]
        /\ IF idleDetector # 0
             THEN /\ IdleDone("start", "resolved", FALSE)
                  /\ UNCHANGED <<idleState, idleDetector>>
             ELSE /\ idleDetector' = 0
                  /\ IdleSetError(TypeErr)
                  /\ IdleDone("start", "rejected:native", FALSE)

\* detector.start() rejects: detector = null; throw; setError(error).
\* An aborted signal rejects it with an AbortError.
IdleStartFails(i, err) ==
  /\ i \in 1..Len(idleCalls)
  /\ LET c == idleCalls[i]
     IN /\ c.phase = "starting"
        /\ (c.sig = "aborted") = (err = AbortErr)
        /\ idleCalls' = RemoveAt(idleCalls, i)
        /\ idleDets' = [idleDets EXCEPT ![c.det].st = "stopped"]
        /\ idleDetector' = 0
        /\ IdleSetError(err)
        /\ IdleDone("start", IF err = AbortErr THEN "rejected:aborted" ELSE "rejected:native",
                    FALSE)

\* The caller aborts the signal it passed to a start() still in flight.
IdleAbort(i) ==
  /\ i \in 1..Len(idleCalls)
  /\ idleCalls[i].sig = "live"
  /\ idleCalls' = [idleCalls EXCEPT ![i].sig = "aborted"]
  /\ IdleDone("abort", "event", FALSE)
  /\ UNCHANGED <<idleState, idleDetector, idleDets>>

\* The caller aborts the signal of a detector that is running: the platform
\* stops the detector; the hook is not told.
IdleAbortRunning(d) ==
  /\ d \in 1..Len(idleDets)
  /\ idleDets[d] = [st |-> "running", sig |-> "live"]
  /\ idleDets' = [idleDets EXCEPT ![d] = [st |-> "stopped", sig |-> "aborted"]]
  /\ IdleDone("abort", "event", FALSE)
  /\ UNCHANGED <<idleState, idleDetector, idleCalls>>

\* The 'change' event of a running detector: the handler reads the states
\* of `detector` and does nothing if it is null.
IdleChange(d, idle, locked) ==
  /\ d \in 1..Len(idleDets)
  /\ idleDets[d].st = "running"
  /\ idleState' = IF idleDetector = 0 THEN idleState
                  ELSE [idleState EXCEPT !.isIdle = idle, !.isScreenLocked = locked]
  /\ IdleDone("change", "event", FALSE)
  /\ UNCHANGED <<idleDetector, idleDets, idleCalls>>

\* stop(): nothing to do without a detector.
IdleStop ==
  /\ IF idleDetector # 0
       THEN IdleStopBody
       ELSE UNCHANGED <<idleState, idleDetector, idleDets>>
  /\ IdleDone("stop", "resolved", FALSE)
  /\ UNCHANGED idleCalls

\* stop(): detector.stop() throws; setError(error); throw error.
IdleStopThrows(err) ==
  /\ idleDetector # 0
  /\ IdleSetError(err)
  /\ IdleDone("stop", "rejected:native", FALSE)
  /\ UNCHANGED <<idleDetector, idleDets, idleCalls>>

IdleInit ==
  /\ idleState \in [isSupported : BOOLEAN, isIdle : {FALSE}, isScreenLocked : {FALSE},
                    error : {NoError}]
  /\ idleDetector = 0
  /\ idleDets = <<>>
  /\ idleCalls = <<>>
  /\ idleLast = [op |-> "construct", outcome |-> "returned", stoppedRunning |-> FALSE]

(***************************************************************************)
(* useWakeLock                                                             *)
(***************************************************************************)
WlDone(op, outcome, sentinel, held) ==
  wlLast' = [op |-> op, outcome |-> outcome, sentinel |-> sentinel, held |-> held]

WlActive == {s \in 1..Len(wlSentinels) : wlSentinels[s] = "active"}

\* The 'release' listener requestLock puts on every sentinel.
WlReleased == [wlState EXCEPT !.isActive = FALSE, !.type = "null", !.sentinel = 0]

\* requestLock() without the API: throws.
WlUnsupported ==
  /\ UNCHANGED wlLost
  /\ ~wlState.isSupported
  /\ WlDone("requestLock", "rejected:unsupported", 0, 0)
  /\ UNCHANGED <<wlState, wlSentinels, wlCalls, wlDoc>>

\* requestLock() up to `await navigator.wakeLock.request('screen')`.  The
\* call remembers the sentinel the snapshot held when it was made.
WlRequest ==
  /\ UNCHANGED wlLost
  /\ wlState.isSupported
  /\ Len(wlCalls) < MaxPending
  /\ wlCalls' = Append(wlCalls, [held |-> wlState.sentinel])
  /\ WlDone("requestLock", "awaiting", 0, wlState.sentinel)
  /\ UNCHANGED <<wlState, wlSentinels, wlDoc>>

\* The platform grants a sentinel (only to a visible page): the snapshot
\* takes it and requestLock() returns it.
WlGranted(i) ==
  /\ wlLost' = FALSE
  /\ i \in 1..Len(wlCalls)
  /\ wlDoc = "visible"
  /\ Len(wlSentinels) < MaxSentinels
  /\ wlSentinels' = Append(wlSentinels, "active")
  /\ wlCalls' = RemoveAt(wlCalls, i)
  /\ wlState' = [wlState EXCEPT !.isActive = TRUE, !.type = "screen",
                                !.sentinel = Len(wlSentinels) + 1]
  /\ WlDone("requestLock", "resolved", Len(wlSentinels) + 1, wlCalls[i].held)
  /\ UNCHANGED wlDoc

\* The platform refuses: throw new Error(`Failed to request wake lock: ...`).
WlRefused(i) ==
  /\ UNCHANGED wlLost
  /\ i \in 1..Len(wlCalls)
  /\ wlCalls' = RemoveAt(wlCalls, i)
  /\ WlDone("requestLock", "rejected:native", 0, wlCalls[i].held)
  /\ UNCHANGED <<wlState, wlSentinels, wlDoc>>

\* releaseLock(): state.sentinel.release(); the sentinel's 'release' event
\* updates the snapshot (a sentinel released before fires no event).
WlReleaseLock ==
  /\ UNCHANGED wlLost
  /\ IF wlState.sentinel # 0 /\ wlSentinels[wlState.sentinel] = "active"
       THEN /\ wlSentinels' = [wlSentinels EXCEPT ![wlState.sentinel] = "released"]
            /\ wlState' = WlReleased
       ELSE UNCHANGED <<wlState, wlSentinels>>
  /\ WlDone("releaseLock", "resolved", 0, wlState.sentinel)
  /\ UNCHANGED <<wlCalls, wlDoc>>

\* The page is hidden: the platform releases every sentinel, each fires
\* 'release'; the visibilitychange handler does nothing for a hidden page.
WlHide ==
  /\ wlLost' = (wlLost \/ WlActive # {})
  /\ wlDoc = "visible"
  /\ wlDoc' = "hidden"
  /\ wlSentinels' = [s \in 1..Len(wlSentinels) |-> "released"]
  /\ wlState' = IF WlActive # {} THEN WlReleased ELSE wlState
  /\ WlDone("visibilitychange", "event", 0, wlState.sentinel)
  /\ UNCHANGED wlCalls

\* The page becomes visible: the handler calls requestLock() if the
\* snapshot says a lock is active.
WlShow ==
  /\ UNCHANGED wlLost
  /\ wlDoc = "hidden"
  /\ wlDoc' = "visible"
  /\ IF wlState.isActive /\ Len(wlCalls) < MaxPending
       THEN wlCalls' = Append(wlCalls, [held |-> wlState.sentinel])
       ELSE wlCalls' = wlCalls
  /\ WlDone("visibilitychange", "event", 0, wlState.sentinel)
  /\ UNCHANGED <<wlState, wlSentinels>>

WlInit ==
  /\ wlState \in [isSupported : BOOLEAN, isActive : {FALSE}, type : {"null"}, sentinel : {0}]
  /\ wlSentinels = <<>>
  /\ wlCalls = <<>>
  /\ wlDoc = "visible"
  /\ wlLost = FALSE
  /\ wlLast = [op |-> "construct", outcome |-> "returned", sentinel |-> 0, held |-> 0]

(***************************************************************************)
(* useBackgroundTask                                                       *)
(***************************************************************************)
BgSignals == {"s1", "s2"}       \* AbortSignals a caller may pass
NoSignal == "none"

BgDone(op, outcome, sigAborted) ==
  bgLast' = [op |-> op, outcome |-> outcome, sigAborted |-> sigAborted,
             before |-> bgState.pendingTasks]

\* scheduleTask() without requestIdleCallback: throws.
BgUnsupported ==
  /\ ~bgState.isSupported
  /\ BgDone("scheduleTask", "rejected:unsupported", FALSE)
  /\ UNCHANGED <<bgState, bgTasks, bgAborted>>

\* scheduleTask(callback, {signal}): count the task, request the idle
\* callback, listen for 'abort' (an aborted signal fires no further event).
BgScheduleTask(sig) ==
  /\ bgState.isSupported
  /\ Len(bgTasks) < MaxTasks
  /\ bgState' = [bgState EXCEPT !.pendingTasks = @ + 1]
  /\ bgTasks' = Append(bgTasks, [st |-> "scheduled", sig |-> sig,
                                 listening |-> (sig # NoSignal /\ sig \notin bgAborted)])
  /\ BgDone("scheduleTask", "returned:handle", sig \in bgAborted)
  /\ UNCHANGED bgAborted

\* The idle callback runs: callback(deadline), then (finally) one task less.
BgIdle(t) ==
  /\ t \in 1..Len(bgTasks)
  /\ bgTasks[t].st = "scheduled"
  /\ bgTasks' = [bgTasks EXCEPT ![t].st = "ran"]
  /\ bgState' = [bgState EXCEPT !.pendingTasks = @ - 1]
  /\ BgDone("idle", "event", FALSE)
  /\ UNCHANGED bgAborted

\* A signal aborts: every listener on it runs once:
\* cancelIdleCallback(handle) and one task less.
BgAbort(sig) ==
  /\ sig \notin bgAborted
  /\ bgAborted' = bgAborted \cup {sig}
  /\ LET hit == {t \in 1..Len(bgTasks) : bgTasks[t].sig = sig /\ bgTasks[t].listening}
     IN /\ bgTasks' = [t \in 1..Len(bgTasks) |->
                         IF t \in hit
                           THEN [bgTasks[t] EXCEPT
                                   !.st = IF @ = "scheduled" THEN "cancelled" ELSE @,
                                   !.listening = FALSE]
                           ELSE bgTasks[t]]
        /\ bgState' = [bgState EXCEPT !.pendingTasks = @ - Cardinality(hit)]
  /\ BgDone("abort", "event", FALSE)

BgInit ==
  /\ bgState \in [isSupported : BOOLEAN, pendingTasks : {0}]
  /\ bgTasks = <<>>
  /\ bgAborted = {}
  /\ bgLast = [op |-> "construct", outcome |-> "returned", sigAborted |-> FALSE, before |-> 0]

(***************************************************************************)
(* useScheduler                                                            *)
(***************************************************************************)
TaskIds == {"t1", "t2"}         \* task.id values

Max0(n) == IF n < 0 THEN 0 ELSE n      \* Math.max(0, n)

SchedDone(op, outcome) == schedLast' = [op |-> op, outcome |-> outcome]

\* signal = AbortSignal.any([task.signal, controller.signal])
SchedAborted(c) == c.ctl \/ c.sig = "aborted"

\* A call whose callback has not begun executing.
SchedPending(c) == c.phase \in {"wait", "delay", "queued"}

\* postTask(callback, task) up to `await wait(signal)`; there is no
\* isSupported check: without window.scheduler the fallbacks are used.
SchedPostTask(id, sig, delay) ==
  /\ Len(schedCalls) < MaxPosts
  /\ schedCalls' = Append(schedCalls, [id |-> id, phase |-> "wait", ctl |-> FALSE,
                                       sig |-> sig, delay |-> delay, started |-> FALSE,
                                       asked |-> (sig = "aborted")])
  /\ schedCtl' = [schedCtl EXCEPT ![id] = Len(schedCalls) + 1]
  /\ SchedDone("postTask", "awaiting")
  /\ UNCHANGED schedState

\* The phase after the wait and the delay: scheduler.postTask queues the
\* callback; without a scheduler `await callback()` runs it at once.
SchedLaunch(c) ==
  IF schedState.isSupported THEN [c EXCEPT !.phase = "queued"]
  ELSE [c EXCEPT !.phase = "run", !.started = TRUE]

\* wait(signal) resolves: activeTaskCount + 1, onTaskStart, then the delay.
SchedWaitOver(i) ==
  /\ i \in 1..Len(schedCalls)
  /\ schedCalls[i].phase = "wait"
  /\ ~SchedAborted(schedCalls[i])
  /\ schedState' = [schedState EXCEPT !.activeTaskCount = @ + 1]
  /\ schedCalls' = [schedCalls EXCEPT ![i] =
                      IF @.delay THEN [@ EXCEPT !.phase = "delay"] ELSE SchedLaunch(@)]
  /\ SchedDone("postTask", "awaiting")
  /\ UNCHANGED schedCtl

\* finally { taskControllers.delete(task.id); activeTaskCount - 1, not below 0 }
\* Of a settled call only the id and whether its callback ran are kept.
SchedFinally(i, outcome) ==
  /\ schedCalls' = [schedCalls EXCEPT ![i] =
                      [id |-> @.id, phase |-> "done", ctl |-> FALSE, sig |-> "none",
                       delay |-> FALSE, started |-> @.started, asked |-> @.asked]]
  /\ schedCtl' = [schedCtl EXCEPT ![schedCalls[i].id] = 0]
  /\ schedState' = [schedState EXCEPT !.activeTaskCount = Max0(@ - 1)]
  /\ SchedDone("postTask", outcome)

\* The signal is aborted while the call waits for its slot, for its delay or
\* in the native queue: the await rejects with an AbortError.
SchedAbortedBeforeRun(i) ==
  /\ i \in 1..Len(schedCalls)
  /\ SchedPending(schedCalls[i])
  /\ SchedAborted(schedCalls[i])
  /\ SchedFinally(i, "rejected:aborted")

\* The delay timer fires.
SchedDelayOver(i) ==
  /\ i \in 1..Len(schedCalls)
  /\ schedCalls[i].phase = "delay"
  /\ ~SchedAborted(schedCalls[i])
  /\ schedCalls' = [schedCalls EXCEPT ![i] = SchedLaunch(@)]
  /\ SchedDone("postTask", "awaiting")
  /\ UNCHANGED <<schedState, schedCtl>>

\* The native scheduler starts the queued callback.
SchedNativeRun(i) ==
  /\ i \in 1..Len(schedCalls)
  /\ schedCalls[i].phase = "queued"
  /\ ~SchedAborted(schedCalls[i])
  /\ schedCalls' = [schedCalls EXCEPT ![i].phase = "run", ![i].started = TRUE]
  /\ SchedDone("postTask", "awaiting")
  /\ UNCHANGED <<schedState, schedCtl>>

\* The callback settles: onTaskComplete or onTaskError, then finally.
SchedCallbackSettles(i, ok) ==
  /\ i \in 1..Len(schedCalls)
  /\ schedCalls[i].phase = "run"
  /\ SchedFinally(i, IF ok THEN "resolved" ELSE "rejected:callback")

\* The caller aborts task.signal.
SchedAbortSignal(i) ==
  /\ i \in 1..Len(schedCalls)
  /\ schedCalls[i].sig = "live"
  /\ schedCalls[i].phase # "done"
  /\ schedCalls' = [schedCalls EXCEPT ![i].sig = "aborted",
                                       ![i].asked = @ \/ SchedPending(schedCalls[i])]
  /\ SchedDone("abort", "event")
  /\ UNCHANGED <<schedState, schedCtl>>

\* cancelTask(taskId)
SchedCancelTask(id) ==
  /\ schedCalls' = [i \in 1..Len(schedCalls) |->
                      [schedCalls[i] EXCEPT
                         !.ctl = @ \/ schedCtl[id] = i,
                         !.asked = @ \/ (schedCalls[i].id = id /\ SchedPending(schedCalls[i]))]]
  /\ IF schedCtl[id] # 0
       THEN /\ schedCtl' = [schedCtl EXCEPT ![id] = 0]
            /\ schedState' = [schedState EXCEPT !.activeTaskCount = Max0(@ - 1)]
       ELSE UNCHANGED <<schedState, schedCtl>>
  /\ SchedDone("cancelTask", "returned")

\* cancelAllTasks()
SchedCancelAllTasks ==
  /\ schedCalls' = [i \in 1..Len(schedCalls) |->
                      IF \E id \in TaskIds : schedCtl[id] = i
                        THEN [schedCalls[i] EXCEPT !.ctl = TRUE]
                        ELSE schedCalls[i]]
  /\ schedCtl' = [id \in TaskIds |-> 0]
  /\ schedState' = [schedState EXCEPT !.activeTaskCount = 0]
  /\ SchedDone("cancelAllTasks", "returned")

SchedInit ==
  /\ schedState \in [isSupported : BOOLEAN, activeTaskCount : {0}]
  /\ schedCalls = <<>>
  /\ schedCtl = [id \in TaskIds |-> 0]
  /\ schedLast = [op |-> "construct", outcome |-> "returned"]

(***************************************************************************)
(* useLocalStorage                                                         *)
(***************************************************************************)
\* JSON values.  A string is its sequence of characters.
JNull == [t |-> "null"]
JUndefined == [t |-> "undefined"]       \* not a JSON value; a legal argument
JBool(b) == [t |-> "bool", b |-> b]
JNum(n) == [t |-> "num", n |-> n]
JStr(s) == [t |-> "str", s |-> s]
JArr(a) == [t |-> "arr", a |-> a]
JObj(m) == [t |-> "obj", m |-> m]       \* m: the members <<[k, v]>> in insertion order

SeqsUpTo(S, n) == UNION {[1..k -> S] : k \in 0..n}

LsChars == {"a", "\""}
LsStrings == SeqsUpTo(LsChars, MaxStr)
LsScalars ==
  {JNull, JBool(FALSE), JBool(TRUE)} \cup {JNum(n) : n \in {0, 7, 10, -3}}
    \cup {JStr(x) : x \in LsStrings}
LsValues ==
  LsScalars \cup {JArr(a) : a \in SeqsUpTo(LsScalars, MaxArr)}
    \cup {JObj(<<>>)} \cup {JObj(<<[k |-> <<"a">>, v |-> x]>>) : x \in LsScalars}

LsDigits == <<"0", "1", "2", "3", "4", "5", "6", "7", "8", "9">>
LsIsDigit(c) == \E d \in 1..10 : LsDigits[d] = c
LsDigitVal(c) == (CHOOSE d \in 1..10 : LsDigits[d] = c) - 1

\* The decimal text of a natural number.
RECURSIVE LsNatText(_)
LsNatText(n) ==
  IF n < 10 THEN <<LsDigits[n + 1]>> ELSE LsNatText(n \div 10) \o <<LsDigits[(n % 10) + 1]>>

\* A string's characters copied verbatim between the quotes.
LsNoEscape(s) == s

\* The characters of a string as JSON.stringify writes them between the
\* quotes: a quote and a backslash are preceded by a backslash.
RECURSIVE LsEscape(_)
LsEscape(s) ==
  IF s = <<>> THEN <<>>
  ELSE (IF Head(s) \in {"\"", "\\"} THEN <<"\\", Head(s)>> ELSE <<Head(s)>>)
         \o LsEscape(Tail(s))

LsQuote(s) == <<"\"">> \o LsEscape(s) \o <<"\"">>

\* JSON.stringify(value), as the sequence of the characters of the text.
RECURSIVE LsStringify(_)
RECURSIVE LsJoin(_, _)
LsJoin(a, i) ==
  IF i > Len(a) THEN <<>>
  ELSE (IF i > 1 THEN <<",">> ELSE <<>>) \o LsStringify(a[i]) \o LsJoin(a, i + 1)
RECURSIVE LsJoinMembers(_, _)
LsJoinMembers(m, i) ==
  IF i > Len(m) THEN <<>>
  ELSE (IF i > 1 THEN <<",">> ELSE <<>>)
         \o LsQuote(m[i].k) \o <<":">> \o LsStringify(m[i].v) \o LsJoinMembers(m, i + 1)
LsStringify(v) ==
  CASE v.t = "null" -> <<"n", "u", "l", "l">>
    [] v.t = "bool" -> IF v.b THEN <<"t", "r", "u", "e">> ELSE <<"f", "a", "l", "s", "e">>
    [] v.t = "num" -> IF v.n < 0 THEN <<"-">> \o LsNatText(-v.n) ELSE LsNatText(v.n)
    [] v.t = "str" -> LsQuote(v.s)
    [] v.t = "arr" -> <<"[">> \o LsJoin(v.a, 1) \o <<"]">>
    [] v.t = "obj" -> <<"{">> \o LsJoinMembers(v.m, 1) \o <<"}">>

\* JSON.parse(text): a recursive descent over the characters.  A result is
\* [ok, val, next]; next is the position after the value.
LsFail == [ok |-> FALSE, val |-> JNull, next |-> 0]
LsOk(v, next) == [ok |-> TRUE, val |-> v, next |-> next]
LsAt(txt, i, c) == i <= Len(txt) /\ txt[i] = c
LsLit(txt, i, w, v) ==
  IF i + Len(w) - 1 <= Len(txt) /\ SubSeq(txt, i, i + Len(w) - 1) = w
    THEN LsOk(v, i + Len(w)) ELSE LsFail

RECURSIVE LsReadString(_, _, _)
LsReadString(txt, i, acc) ==
  IF i > Len(txt) THEN LsFail
  ELSE IF txt[i] = "\"" THEN LsOk(JStr(acc), i + 1)
  ELSE IF txt[i] = "\\"
    THEN IF i + 1 <= Len(txt) /\ txt[i + 1] \in {"\"", "\\"}
           THEN LsReadString(txt, i + 2, Append(acc, txt[i + 1])) ELSE LsFail
  ELSE LsReadString(txt, i + 1, Append(acc, txt[i]))

RECURSIVE LsReadDigits(_, _, _)
LsReadDigits(txt, i, n) ==
  IF i <= Len(txt) /\ LsIsDigit(txt[i])
    THEN LsReadDigits(txt, i + 1, 10 * n + LsDigitVal(txt[i]))
    ELSE [n |-> n, next |-> i]

\* An unsigned number: a lone 0, or digits that do not start with 0.
LsReadNat(txt, i) ==
  IF ~(i <= Len(txt) /\ LsIsDigit(txt[i])) THEN LsFail
  ELSE IF txt[i] = "0" THEN LsOk(JNum(0), i + 1)
  ELSE LET r == LsReadDigits(txt, i, 0) IN LsOk(JNum(r.n), r.next)

RECURSIVE LsParseValue(_, _)
RECURSIVE LsParseElements(_, _, _)
RECURSIVE LsParseMembers(_, _, _)
LsParseElements(txt, i, acc) ==
  LET r == LsParseValue(txt, i)
  IN IF ~r.ok THEN LsFail
     ELSE IF LsAt(txt, r.next, ",") THEN LsParseElements(txt, r.next + 1, Append(acc, r.val))
     ELSE IF LsAt(txt, r.next, "]") THEN LsOk(JArr(Append(acc, r.val)), r.next + 1)
     ELSE LsFail
LsParseMembers(txt, i, acc) ==
  IF ~LsAt(txt, i, "\"") THEN LsFail
  ELSE LET k == LsReadString(txt, i + 1, <<>>)
       IN IF ~(k.ok /\ LsAt(txt, k.next, ":")) THEN LsFail
          ELSE LET r == LsParseValue(txt, k.next + 1)
                   m == Append(acc, [k |-> k.val.s, v |-> r.val])
               IN IF ~r.ok THEN LsFail
                  ELSE IF LsAt(txt, r.next, ",") THEN LsParseMembers(txt, r.next + 1, m)
                  ELSE IF LsAt(txt, r.next, "}") THEN LsOk(JObj(m), r.next + 1)
                  ELSE LsFail
LsParseValue(txt, i) ==
  IF i > Len(txt) THEN LsFail
  ELSE CASE txt[i] = "n" -> LsLit(txt, i, <<"n", "u", "l", "l">>, JNull)
         [] txt[i] = "t" -> LsLit(txt, i, <<"t", "r", "u", "e">>, JBool(TRUE))
         [] txt[i] = "f" -> LsLit(txt, i, <<"f", "a", "l", "s", "e">>, JBool(FALSE))
         [] txt[i] = "\"" -> LsReadString(txt, i + 1, <<>>)
         [] txt[i] = "-" ->
              LET r == LsReadNat(txt, i + 1)
              IN IF r.ok THEN LsOk(JNum(-r.val.n), r.next) ELSE LsFail
         [] txt[i] = "[" ->
              IF LsAt(txt, i + 1, "]") THEN LsOk(JArr(<<>>), i + 2)
              ELSE LsParseElements(txt, i + 1, <<>>)
         [] txt[i] = "{" ->
              IF LsAt(txt, i + 1, "}") THEN LsOk(JObj(<<>>), i + 2)
              ELSE LsParseMembers(txt, i + 1, <<>>)
         [] OTHER -> LsReadNat(txt, i)

\* JSON.parse throws unless the whole text is one value.
LsParse(txt) ==
  LET r == LsParseValue(txt, 1)
  IN IF r.ok /\ r.next = Len(txt) + 1 THEN r ELSE LsFail

LsAbsent == "absent"            \* getItem(key) returns null
LsNone == [t |-> "none"]        \* setValue has not been called

\* getValue()
LsGetValueResult ==
  IF lsKey = "" THEN lsInitial
  ELSE IF lsStore = LsAbsent \/ lsStore = <<>> THEN lsInitial      \* item ? ... : initialValue
  ELSE LET r == LsParse(lsStore) IN IF r.ok THEN r.val ELSE lsInitial

LsGetValue ==
  /\ lsLast' = [op |-> "getValue", result |-> LsGetValueResult]
  /\ UNCHANGED <<lsKey, lsInitial, lsStore, lsFull, lsSet>>

\* setValue(value) that stores null like every other value.
LsSetValueNoRemove(value) ==
  /\ lsSet' = value
  /\ lsStore' = IF lsKey = "" \/ lsFull \/ value = JUndefined
                  THEN lsStore ELSE LsStringify(value)
  /\ lsLast' = [op |-> "setValue", result |-> JUndefined]
  /\ UNCHANGED <<lsKey, lsInitial, lsFull>>

\* setValue(value): nothing for an empty key; removeItem for null and
\* undefined; setItem otherwise, whose QuotaExceededError is caught and logged.
LsSetValue(value) ==
  /\ lsSet' = value
  /\ lsStore' = IF lsKey = "" THEN lsStore
                ELSE IF value \in {JUndefined, JNull} THEN LsAbsent
                ELSE IF lsFull THEN lsStore
                ELSE LsStringify(value)
  /\ lsLast' = [op |-> "setValue", result |-> JUndefined]
  /\ UNCHANGED <<lsKey, lsInitial, lsFull>>

\* useLocalStorage(key, initialValue) over a storage that other code may
\* have written to and that may be full.
LsInit ==
  /\ lsKey \in {"", "k"}
  /\ lsInitial \in {JNull, JStr(<<"i">>)}
  /\ lsStore \in {LsAbsent, <<>>, <<"x">>, LsStringify(JNum(7))}
  /\ lsFull \in BOOLEAN
  /\ lsSet = LsNone
  /\ lsLast = [op |-> "construct", result |-> JUndefined]

LsNext ==
  \/ LsGetValue /\ UNCHANGED lsOthers
  \/ \E value \in LsValues \cup {JUndefined} : LsSetValue(value) /\ UNCHANGED lsOthers

(***************************************************************************)
(* useBroadcastChannel: the adapters made for one channel name             *)
(***************************************************************************)
BcAdapters == {"x", "y"}            \* adapters for the same channel name
BcCallbacks == {"L1", "L2"}         \* message listeners
BcData == {"hello", "null"}         \* a message's data: a value, or null

IsPrefix(a, b) == Len(a) <= Len(b) /\ SubSeq(b, 1, Len(a)) = a

\* The adapter a callback is registered on ("-" if none).
BcHome(cb) ==
  IF \E a \in BcAdapters : cb \in Range(bcMsgListeners[a])
    THEN CHOOSE a \in BcAdapters : cb \in Range(bcMsgListeners[a])
    ELSE "-"

\* The messages an onmessage handler hands to its listeners.
BcPassed(q) == SelectSeq(q, LAMBDA m : m.data # "null")

\* No message is in flight.
BcQuiet == \A a \in BcAdapters : bcInbox[a] = <<>>

\* Both callbacks are registered, on channels open ever since.
BcBothListen ==
  \A cb \in BcCallbacks : BcHome(cb) # "-" /\ bcSteady[cb]

BcDone(op, a, outcome) == bcLast' = [op |-> op, adapter |-> a, outcome |-> outcome]

\* connect(): throws without the API; opens a channel if there is none.
BcConnect(a) ==
  /\ IF ~bcState[a].isSupported
       THEN UNCHANGED <<bcState, bcChannel>> /\ BcDone("connect", a, "rejected:unsupported")
       ELSE /\ bcChannel' = [bcChannel EXCEPT ![a] = TRUE]
            /\ bcState' = [bcState EXCEPT ![a].isConnected = TRUE]
            /\ BcDone("connect", a, "returned")
  /\ UNCHANGED <<bcMsgListeners, bcInbox, bcPosts, bcGot, bcDue, bcExpect, bcSteady>>

\* disconnect(): close the channel; what was in flight to it is dropped.
BcDisconnect(a) ==
  /\ bcChannel' = [bcChannel EXCEPT ![a] = FALSE]
  /\ bcInbox' = [bcInbox EXCEPT ![a] = <<>>]
  /\ bcState' = [bcState EXCEPT ![a].isConnected = FALSE]
  /\ bcSteady' = [cb \in BcCallbacks |-> bcSteady[cb] /\ (bcChannel[a] => BcHome(cb) # a)]
  /\ BcDone("disconnect", a, "returned")
  /\ UNCHANGED <<bcMsgListeners, bcPosts, bcGot, bcDue, bcExpect>>

\* postMessage(message): reconnects if there is no channel, then
\* channel.postMessage: the platform queues the message for every other
\* open channel of the name, not for the channel that posts.
BcPostMessage(a, data) ==
  /\ bcPosts < MaxMsgs
  /\ IF ~bcChannel[a] /\ ~bcState[a].isSupported
       THEN /\ BcDone("postMessage", a, "rejected:unsupported")
            /\ UNCHANGED <<bcState, bcChannel, bcInbox, bcPosts, bcDue, bcExpect>>
       ELSE LET m == [n |-> bcPosts + 1, data |-> data]
            IN /\ bcChannel' = [bcChannel EXCEPT ![a] = TRUE]
               /\ bcState' = [bcState EXCEPT ![a].isConnected = TRUE]
               /\ bcInbox' = [b \in BcAdapters |->
                                IF b # a /\ bcChannel[b] THEN Append(bcInbox[b], m)
                                ELSE bcInbox[b]]
               /\ bcPosts' = bcPosts + 1
               /\ bcDue' = [cb \in BcCallbacks |->
                              IF BcBothListen /\ data # "null"
                                THEN Append(bcDue[cb], m) ELSE bcDue[cb]]
               /\ bcExpect' = [cb \in BcCallbacks |->
                                 IF BcHome(cb) \notin {"-", a} /\ data # "null"
                                   THEN Append(bcExpect[cb], m) ELSE bcExpect[cb]]
               /\ BcDone("postMessage", a, "returned")
  /\ UNCHANGED <<bcMsgListeners, bcGot, bcSteady>>

\* An onmessage handler that hands every message on, null data included.
BcDeliverUnfiltered(a) ==
  /\ bcInbox[a] # <<>>
  /\ LET m == Head(bcInbox[a])
     IN bcGot' = [cb \in BcCallbacks |->
                    IF cb \in Range(bcMsgListeners[a])
                      THEN Append(bcGot[cb], m) ELSE bcGot[cb]]
  /\ bcInbox' = [bcInbox EXCEPT ![a] = Tail(@)]
  /\ BcDone("message", a, "event")
  /\ UNCHANGED <<bcState, bcChannel, bcMsgListeners, bcPosts, bcDue, bcExpect, bcSteady>>

\* channel.onmessage: a message whose data is neither undefined nor null is
\* handed to every message listener.
BcDeliver(a) ==
  /\ bcInbox[a] # <<>>
  /\ LET m == Head(bcInbox[a])
     IN bcGot' = [cb \in BcCallbacks |->
                    IF m.data # "null" /\ cb \in Range(bcMsgListeners[a])
                      THEN Append(bcGot[cb], m) ELSE bcGot[cb]]
  /\ bcInbox' = [bcInbox EXCEPT ![a] = Tail(@)]
  /\ BcDone("message", a, "event")
  /\ UNCHANGED <<bcState, bcChannel, bcMsgListeners, bcPosts, bcDue, bcExpect, bcSteady>>

\* onMessage(callback): add the listener, connect if not connected (which
\* throws without the API).  What is in flight to the channel will reach it.
BcOnMessage(a, cb) ==
  /\ BcHome(cb) = "-"
  /\ bcMsgListeners' = [bcMsgListeners EXCEPT ![a] = SetAdd(@, cb)]
  /\ bcGot' = [bcGot EXCEPT ![cb] = <<>>]
  /\ bcDue' = [bcDue EXCEPT ![cb] = BcPassed(bcInbox[a])]
  /\ bcExpect' = [bcExpect EXCEPT ![cb] = BcPassed(bcInbox[a])]
  /\ IF bcState[a].isSupported
       THEN /\ bcChannel' = [bcChannel EXCEPT ![a] = TRUE]
            /\ bcState' = [bcState EXCEPT ![a].isConnected = TRUE]
            /\ bcSteady' = [bcSteady EXCEPT ![cb] = TRUE]
            /\ BcDone("onMessage", a, "returned")
       ELSE /\ bcSteady' = [bcSteady EXCEPT ![cb] = FALSE]
            /\ BcDone("onMessage", a, "rejected:unsupported")
            /\ UNCHANGED <<bcState, bcChannel>>
  /\ UNCHANGED <<bcInbox, bcPosts>>

\* The disposer returned by onMessage: delete the listener; disconnect()
\* when no message listener is left.
BcOffMessage(cb) ==
  /\ BcHome(cb) # "-"
  /\ bcState[BcHome(cb)].isSupported
  /\ LET a == BcHome(cb)
         left == SetDelete(bcMsgListeners[a], cb)
     IN /\ bcMsgListeners' = [bcMsgListeners EXCEPT ![a] = left]
        /\ IF left = <<>> /\ bcChannel[a]
             THEN /\ bcChannel' = [bcChannel EXCEPT ![a] = FALSE]
                  /\ bcInbox' = [bcInbox EXCEPT ![a] = <<>>]
                  /\ bcState' = [bcState EXCEPT ![a].isConnected = FALSE]
             ELSE UNCHANGED <<bcChannel, bcInbox, bcState>>
        /\ BcDone("offMessage", a, "returned")
  /\ bcGot' = [bcGot EXCEPT ![cb] = <<>>]
  /\ bcDue' = [bcDue EXCEPT ![cb] = <<>>]
  /\ bcExpect' = [bcExpect EXCEPT ![cb] = <<>>]
  /\ bcSteady' = [bcSteady EXCEPT ![cb] = FALSE]
  /\ UNCHANGED bcPosts

\* useBroadcastChannel(name), once per adapter: each connects if the API exists.
BcInit ==
  /\ \E sup \in BOOLEAN :
       /\ bcState = [a \in BcAdapters |-> [isSupported |-> sup, isConnected |-> sup]]
       /\ bcChannel = [a \in BcAdapters |-> sup]
  /\ bcMsgListeners = [a \in BcAdapters |-> <<>>]
  /\ bcInbox = [a \in BcAdapters |-> <<>>]
  /\ bcPosts = 0
  /\ bcGot = [cb \in BcCallbacks |-> <<>>]
  /\ bcDue = [cb \in BcCallbacks |-> <<>>]
  /\ bcExpect = [cb \in BcCallbacks |-> <<>>]
  /\ bcSteady = [cb \in BcCallbacks |-> FALSE]
  /\ bcLast = [op |-> "construct", adapter |-> "-", outcome |-> "returned"]

BcNext ==
  \/ \E a \in BcAdapters : BcConnect(a) /\ UNCHANGED bcOthers
  \/ \E a \in BcAdapters : BcDisconnect(a) /\ UNCHANGED bcOthers
  \/ \E a \in BcAdapters, data \in BcData : BcPostMessage(a, data) /\ UNCHANGED bcOthers
  \/ \E a \in BcAdapters : BcDeliver(a) /\ UNCHANGED bcOthers
  \/ \E a \in BcAdapters, cb \in BcCallbacks : BcOnMessage(a, cb) /\ UNCHANGED bcOthers
  \/ \E cb \in BcCallbacks : BcOffMessage(cb) /\ UNCHANGED bcOthers

(***************************************************************************)
(* useClipboard                                                            *)
(***************************************************************************)
ClipTexts == {"t1", "t2"}           \* what the system clipboard may hold
ClipPerms == {"granted", "denied", "prompt"}

ClipDone(op, outcome, value) == clipLast' = [op |-> op, outcome |-> outcome, value |-> value]

\* checkPermission()/readText() without the API: return false / throw.
ClipUnsupported(op) ==
  /\ ~clipState.isSupported
  /\ ClipDone(op, IF op = "readText" THEN "rejected:unsupported" ELSE "resolved", "false")
  /\ UNCHANGED <<clipState, clipPerm, clipText, clipCalls>>

\* checkPermission(), or readText() while state.hasPermission is false, up
\* to `await navigator.permissions.query(...)`.
ClipQuery(op) ==
  /\ clipState.isSupported
  /\ op = "readText" => ~clipState.hasPermission
  /\ Len(clipCalls) < MaxPending
  /\ clipCalls' = Append(clipCalls, [op |-> op, phase |-> "query"])
  /\ ClipDone(op, "awaiting", "-")
  /\ UNCHANGED <<clipState, clipPerm, clipText>>

\* readText() while state.hasPermission is true: straight to
\* `await navigator.clipboard.readText()`.
ClipReadDirect ==
  /\ clipState.isSupported
  /\ clipState.hasPermission
  /\ Len(clipCalls) < MaxPending
  /\ clipCalls' = Append(clipCalls, [op |-> "readText", phase |-> "read"])
  /\ ClipDone("readText", "awaiting", "-")
  /\ UNCHANGED <<clipState, clipPerm, clipText>>

\* The permission query settles.  ok: it resolved with the permission's
\* state, else it rejected (checkPermission logs and returns false).
\* readText() throws unless the permission is granted.
ClipQuerySettles(i, ok) ==
  /\ i \in 1..Len(clipCalls)
  /\ clipCalls[i].phase = "query"
  /\ LET c == clipCalls[i]
         permitted == ok /\ clipPerm = "granted"
     IN /\ clipState' = IF ok THEN [clipState EXCEPT !.hasPermission = permitted]
                        ELSE clipState
        /\ IF c.op = "readText" /\ permitted
             THEN /\ clipCalls' = [clipCalls EXCEPT ![i].phase = "read"]
                  /\ ClipDone("readText", "awaiting", "-")
             ELSE /\ clipCalls' = RemoveAt(clipCalls, i)
                  /\ IF c.op = "readText"
                       THEN ClipDone("readText", "rejected:permission", "-")
                       ELSE ClipDone("checkPermission", "resolved",
                                     IF permitted THEN "true" ELSE "false")
  /\ UNCHANGED <<clipPerm, clipText>>

\* navigator.clipboard.readText() resolves with the clipboard's text (the
\* platform reads only with the permission granted).
ClipReadResolves(i) ==
  /\ i \in 1..Len(clipCalls)
  /\ clipCalls[i].phase = "read"
  /\ clipPerm = "granted"
  /\ clipCalls' = RemoveAt(clipCalls, i)
  /\ ClipDone("readText", "resolved", clipText)
  /\ UNCHANGED <<clipState, clipPerm, clipText>>

\* navigator.clipboard.readText() rejects (permission revoked, document not
\* focused): the catch logs and returns null.
ClipReadRejects(i) ==
  /\ i \in 1..Len(clipCalls)
  /\ clipCalls[i].phase = "read"
  /\ clipCalls' = RemoveAt(clipCalls, i)
  /\ ClipDone("readText", "resolved", "null")
  /\ UNCHANGED <<clipState, clipPerm, clipText>>

\* The user changes the site's clipboard permission.
ClipPermissionChanges(p) ==
  /\ p # clipPerm
  /\ clipPerm' = p
  /\ ClipDone("permission", "event", "-")
  /\ UNCHANGED <<clipState, clipText, clipCalls>>

\* Something is copied to the system clipboard.
ClipCopied(t) ==
  /\ t # clipText
  /\ clipText' = t
  /\ ClipDone("copy", "event", "-")
  /\ UNCHANGED <<clipState, clipPerm, clipCalls>>

\* useClipboard(): ends with checkPermission(), left at its await when the
\* API exists.
ClipInit ==
  /\ clipState \in [isSupported : BOOLEAN, hasPermission : {FALSE}]
  /\ clipPerm \in ClipPerms
  /\ clipText \in ClipTexts
  /\ clipCalls = IF clipState.isSupported
                   THEN <<[op |-> "checkPermission", phase |-> "query"]>> ELSE <<>>
  /\ clipLast = [op |-> "construct", outcome |-> "returned", value |-> "-"]

ClipNext ==
  \/ \E op \in {"checkPermission", "readText"} : ClipUnsupported(op) /\ UNCHANGED clipOthers
  \/ \E op \in {"checkPermission", "readText"} : ClipQuery(op) /\ UNCHANGED clipOthers
  \/ ClipReadDirect /\ UNCHANGED clipOthers
  \/ \E i \in 1..MaxPending, ok \in BOOLEAN : ClipQuerySettles(i, ok) /\ UNCHANGED clipOthers
  \/ \E i \in 1..MaxPending : ClipReadResolves(i) /\ UNCHANGED clipOthers
  \/ \E i \in 1..MaxPending : ClipReadRejects(i) /\ UNCHANGED clipOthers
  \/ \E p \in ClipPerms : ClipPermissionChanges(p) /\ UNCHANGED clipOthers
  \/ \E t \in ClipTexts : ClipCopied(t) /\ UNCHANGED clipOthers

(***************************************************************************)
(* useWebLocks                                                             *)
(***************************************************************************)
LkNames == {"n1", "n2"}             \* lock names
LkModes == {"shared", "exclusive"}

LkEntry(c) == [name |-> c.name, mode |-> c.mode]

\* The calls whose callback holds a lock.
LkRunning == {i \in 1..Len(lkCalls) : lkCalls[i].phase = "running"}

\* The Web Locks rule: an exclusive lock is granted when no lock of the name
\* is held, a shared one when no exclusive lock of the name is held.
LkGrantable(c) ==
  \A j \in LkRunning :
    lkCalls[j].name = c.name => (c.mode = "shared" /\ lkCalls[j].mode = "shared")

\* state.heldLocks.findIndex(lock => lock.name === name), 0 for -1.
LkFindIndex(held, name) ==
  IF \E k \in 1..Len(held) : held[k].name = name
    THEN CHOOSE k \in 1..Len(held) :
           held[k].name = name /\ \A j \in 1..(k - 1) : held[j].name # name
    ELSE 0

\* before: state.heldLocks as the snapshot current before the step showed
\* it; beforeNow: what that same snapshot object shows after the step.
LkDone(op, outcome, beforeNow) ==
  lkLast' = [op |-> op, outcome |-> outcome,
             before |-> lkState.heldLocks, beforeNow |-> beforeNow]

\* Calls that are over and have no timer left are forgotten.
LkSweep(calls) == SelectSeq(calls, LAMBDA c : c.phase # "done" \/ c.timer)

\* requestLock()/getLocks() without the API: throws.
LkUnsupported(op) ==
  /\ ~lkState.isSupported
  /\ LkDone(op, "rejected:unsupported", lkState.heldLocks)
  /\ UNCHANGED <<lkState, lkCalls, lkMade, lkQueries>>

\* requestLock(name, callback, {mode, signal}) up to
\* `await navigator.locks.request(...)`: clearError().
LkRequestLock(name, mode, sig) ==
  /\ lkState.isSupported
  /\ lkMade < MaxLocks
  /\ lkMade' = lkMade + 1
  /\ lkState' = [lkState EXCEPT !.error = NoError]
  /\ lkCalls' = Append(lkCalls, [name |-> name, mode |-> mode, phase |-> "queued",
                                 timer |-> FALSE, sig |-> sig])
  /\ LkDone("requestLock", "awaiting", lkState.heldLocks)
  /\ UNCHANGED lkQueries

\* The platform grants the lock and calls the wrapper: trackLock pushes the
\* entry onto state.heldLocks (the array of the current snapshot), then
\* updateState({ heldLocks: [...state.heldLocks] }), arms setTimeout(..., 0);
\* the caller's callback starts.
LkGranted(i) ==
  /\ i \in 1..Len(lkCalls)
  /\ lkCalls[i].phase = "queued"
  /\ lkCalls[i].sig # "aborted"
  /\ LkGrantable(lkCalls[i])
  /\ LET pushed == Append(lkState.heldLocks, LkEntry(lkCalls[i]))
     IN /\ lkState' = [lkState EXCEPT !.heldLocks = pushed]
        /\ LkDone("requestLock", "granted", pushed)
  /\ lkCalls' = [lkCalls EXCEPT ![i].phase = "running", ![i].timer = TRUE]
  /\ UNCHANGED <<lkMade, lkQueries>>

\* The timer of trackLock fires: the first entry of the name is spliced out
\* of state.heldLocks in place, then updateState({ heldLocks: [...] }).
LkTimer(i) ==
  /\ i \in 1..Len(lkCalls)
  /\ lkCalls[i].timer
  /\ LET index == LkFindIndex(lkState.heldLocks, lkCalls[i].name)
         spliced == IF index = 0 THEN lkState.heldLocks
                    ELSE RemoveAt(lkState.heldLocks, index)
     IN /\ lkState' = [lkState EXCEPT !.heldLocks = spliced]
        /\ LkDone("timer", "event", spliced)
  /\ lkCalls' = LkSweep([lkCalls EXCEPT ![i].timer = FALSE])
  /\ UNCHANGED <<lkMade, lkQueries>>

\* The caller's callback settles, the platform releases the lock and the
\* request promise settles the same way; a rejection is recorded and rethrown.
LkCallbackSettles(i, err) ==
  /\ i \in 1..Len(lkCalls)
  /\ lkCalls[i].phase = "running"
  /\ lkCalls' = LkSweep([lkCalls EXCEPT ![i].phase = "done"])
  /\ lkState' = IF err = NoError THEN lkState ELSE [lkState EXCEPT !.error = err]
  /\ LkDone("requestLock", IF err = NoError THEN "resolved" ELSE "rejected:callback",
            lkState.heldLocks)
  /\ UNCHANGED <<lkMade, lkQueries>>

\* The caller aborts the signal of a request still queued: the request
\* rejects with an AbortError; setError(error); throw error.
LkAbort(i) ==
  /\ i \in 1..Len(lkCalls)
  /\ lkCalls[i].phase = "queued"
  /\ lkCalls[i].sig # "none"
  /\ lkCalls' = RemoveAt(lkCalls, i)
  /\ lkState' = [lkState EXCEPT !.error = AbortErr]
  /\ LkDone("requestLock", "rejected:aborted", lkState.heldLocks)
  /\ UNCHANGED <<lkMade, lkQueries>>

\* getLocks() up to `await navigator.locks.query()`: clearError().
LkGetLocks ==
  /\ lkState.isSupported
  /\ lkQueries < MaxPending
  /\ lkQueries' = lkQueries + 1
  /\ lkState' = [lkState EXCEPT !.error = NoError]
  /\ LkDone("getLocks", "awaiting", lkState.heldLocks)
  /\ UNCHANGED <<lkCalls, lkMade>>

\* The query resolves with the locks held now: updateState({ heldLocks }).
LkGetLocksResolves ==
  /\ lkQueries > 0
  /\ lkQueries' = lkQueries - 1
  /\ lkState' = [lkState EXCEPT !.heldLocks =
                   [k \in 1..Len(SelectSeq(lkCalls, LAMBDA c : c.phase = "running")) |->
                      LkEntry(SelectSeq(lkCalls, LAMBDA c : c.phase = "running")[k])]]
  /\ LkDone("getLocks", "resolved", lkState.heldLocks)
  /\ UNCHANGED <<lkCalls, lkMade>>

LkInit ==
  /\ lkState \in [isSupported : BOOLEAN, heldLocks : {<<>>}, error : {NoError}]
  /\ lkCalls = <<>>
  /\ lkMade = 0
  /\ lkQueries = 0
  /\ lkLast = [op |-> "construct", outcome |-> "returned", before |-> <<>>, beforeNow |-> <<>>]

LkNext ==
  \/ \E op \in {"requestLock", "getLocks"} : LkUnsupported(op) /\ UNCHANGED lkOthers
  \/ \E name \in LkNames, mode \in LkModes, sig \in Signals :
       LkRequestLock(name, mode, sig) /\ UNCHANGED lkOthers
  \/ \E i \in 1..MaxLocks : LkGranted(i) /\ UNCHANGED lkOthers
  \/ \E i \in 1..MaxLocks : LkTimer(i) /\ UNCHANGED lkOthers
  \/ \E i \in 1..MaxLocks, err \in Errors \cup {NoError} :
       LkCallbackSettles(i, err) /\ UNCHANGED lkOthers
  \/ \E i \in 1..MaxLocks : LkAbort(i) /\ UNCHANGED lkOthers
  \/ LkGetLocks /\ UNCHANGED lkOthers
  \/ LkGetLocksResolves /\ UNCHANGED lkOthers

(***************************************************************************)
(* useMediaRecorder                                                        *)
(***************************************************************************)
MrInProgress == "Recording already in progress"
MrDenied == "Permission denied for media access"

MrNotSupported == "NotSupportedError"   \* thrown by new MediaRecorder / recorder.start

\* recorder, stopped: for a 'stop' event, the recorder whose event it is and
\* the stream whose tracks its handler stopped (0 for none).
MrDoneEvent(op, outcome, r, stopped) ==
  mrLast' = [op |-> op, outcome |-> outcome, recorder |-> r, stopped |-> stopped]

MrDone(op, outcome) == MrDoneEvent(op, outcome, 0, 0)

\* start() without the API: throws before the try block.
MrUnsupported ==
  /\ UNCHANGED mrOverlap
  /\ ~mrState.isSupported
  /\ MrDone("start", "rejected:unsupported")
  /\ UNCHANGED <<mrState, mrRecorder, mrCalls, mrLive, mrStopping, mrStreams, mrMade>>

\* start() up to `await checkPermissions(constraints)`: clearError(); with a
\* recorder in place it throws, setError(error) and rejects.
MrStart ==
  /\ mrOverlap' = (mrOverlap \/ (mrRecorder = 0 /\ mrCalls # <<>>))
  /\ mrState.isSupported
  /\ mrMade < MaxStarts
  /\ mrMade' = mrMade + 1
  /\ IF mrRecorder # 0
       THEN /\ mrState' = [mrState EXCEPT !.error = MrInProgress]
            /\ MrDone("start", "rejected:in progress")
            /\ UNCHANGED mrCalls
       ELSE /\ mrState' = [mrState EXCEPT !.error = NoError]
            /\ mrCalls' = Append(mrCalls, [id |-> mrMade + 1, phase |-> "permission"])
            /\ MrDone("start", "awaiting")
  /\ UNCHANGED <<mrRecorder, mrLive, mrStopping, mrStreams>>

\* The permission queries of checkPermissions settle: 'denied' makes start()
\* throw, a rejected query is recorded and rethrown, otherwise start() goes
\* on to `await getStream(constraints)`.
MrPermissionSettles(i, answer) ==
  /\ UNCHANGED mrOverlap
  /\ i \in 1..Len(mrCalls)
  /\ mrCalls[i].phase = "permission"
  /\ CASE answer = "denied" ->
            /\ mrState' = [mrState EXCEPT !.error = MrDenied]
            /\ mrCalls' = RemoveAt(mrCalls, i)
            /\ MrDone("start", "rejected:denied")
       [] answer \in Errors ->
            /\ mrState' = [mrState EXCEPT !.error = answer]
            /\ mrCalls' = RemoveAt(mrCalls, i)
            /\ MrDone("start", "rejected:error")
       [] OTHER ->
            /\ mrCalls' = [mrCalls EXCEPT ![i].phase = "stream"]
            /\ MrDone("start", "awaiting")
            /\ UNCHANGED mrState
  /\ UNCHANGED <<mrRecorder, mrLive, mrStopping, mrStreams, mrMade>>

\* getUserMedia settles. With an error: setError(error) and start() rejects.
\* With a stream: updateState({ stream }); new MediaRecorder(stream) may
\* throw; recorder is assigned, the listeners added; recorder.start(1000)
\* may throw; either throw is recorded and rethrown by the catch; otherwise
\* start() resolves.
MrStreamSettles(i, err, fail) ==
  /\ UNCHANGED mrOverlap
  /\ i \in 1..Len(mrCalls)
  /\ mrCalls[i].phase = "stream"
  /\ mrCalls' = RemoveAt(mrCalls, i)
  /\ IF err # NoError
       THEN /\ fail = "none"
            /\ mrState' = [mrState EXCEPT !.error = err]
            /\ MrDone("start", "rejected:error")
            /\ UNCHANGED <<mrRecorder, mrLive, mrStreams>>
       ELSE /\ mrStreams' = mrStreams \cup {mrCalls[i].id}
            /\ mrState' = [mrState EXCEPT
                             !.stream = mrCalls[i].id,
                             !.error = IF fail = "none" THEN @ ELSE MrNotSupported]
            /\ mrRecorder' = IF fail = "construct" THEN mrRecorder ELSE mrCalls[i].id
            /\ mrLive' = IF fail = "none" THEN mrLive \cup {mrCalls[i].id} ELSE mrLive
            /\ MrDone("start", IF fail = "none" THEN "resolved" ELSE "rejected:" \o fail)
  /\ UNCHANGED <<mrStopping, mrMade>>

\* The 'start' event of a MediaRecorder made by this adapter.
MrStartEvent(r) ==
  /\ UNCHANGED mrOverlap
  /\ r \in mrLive \cup mrStopping
  /\ ~mrState.isRecording
  /\ mrState' = [mrState EXCEPT !.isRecording = TRUE]
  /\ MrDone("start event", "event")
  /\ UNCHANGED <<mrRecorder, mrCalls, mrLive, mrStopping, mrStreams, mrMade>>

\* stop(): nothing without a recorder that records; else clearError(),
\* recorder.stop(), recorder = null.
MrStop ==
  /\ UNCHANGED mrOverlap
  /\ mrRecorder # 0
  /\ mrState.isRecording
  /\ mrRecorder' = 0
  /\ mrLive' = mrLive \ {mrRecorder}
  /\ mrStopping' = mrStopping \cup {mrRecorder}
  /\ mrState' = [mrState EXCEPT !.error = NoError]
  /\ MrDone("stop", "returned")
  /\ UNCHANGED <<mrCalls, mrStreams, mrMade>>

\* The 'stop' event of a stopped MediaRecorder: isRecording false, the
\* tracks of state.stream stopped, stream null.
MrStopEvent(r) ==
  /\ UNCHANGED mrOverlap
  /\ r \in mrStopping
  /\ mrStopping' = mrStopping \ {r}
  /\ mrStreams' = mrStreams \ {mrState.stream}
  /\ mrState' = [mrState EXCEPT !.isRecording = FALSE, !.stream = 0]
  /\ MrDoneEvent("stop event", "event", r, mrState.stream)
  /\ UNCHANGED <<mrRecorder, mrCalls, mrLive, mrMade>>

MrInit ==
  /\ mrState \in [isSupported : BOOLEAN, isRecording : {FALSE}, stream : {0}, error : {NoError}]
  /\ mrRecorder = 0
  /\ mrCalls = <<>>
  /\ mrLive = {}
  /\ mrStopping = {}
  /\ mrStreams = {}
  /\ mrMade = 0
  /\ mrOverlap = FALSE
  /\ mrLast = [op |-> "construct", outcome |-> "returned", recorder |-> 0, stopped |-> 0]

MrNext ==
  \/ MrUnsupported /\ UNCHANGED mrOthers
  \/ MrStart /\ UNCHANGED mrOthers
  \/ \E i \in 1..MaxStarts, answer \in {"granted", "prompt", "denied"} \cup Errors :
       MrPermissionSettles(i, answer) /\ UNCHANGED mrOthers
  \/ \E i \in 1..MaxStarts, err \in Errors \cup {NoError},
          fail \in {"none", "construct", "start"} :
       MrStreamSettles(i, err, fail) /\ UNCHANGED mrOthers
  \/ \E r \in 1..MaxStarts : MrStartEvent(r) /\ UNCHANGED mrOthers
  \/ MrStop /\ UNCHANGED mrOthers
  \/ \E r \in 1..MaxStarts : MrStopEvent(r) /\ UNCHANGED mrOthers

(***************************************************************************)
(* useNetwork                                                              *)
(***************************************************************************)
NetTypes == {"null", "3g", "4g"}    \* connection.effectiveType || null

\* updateState: a new snapshot, every subscriber called with it.
NetUpdate(newState, op, updates) ==
  /\ netState' = newState
  /\ netLast' = [op |-> op, updates |-> updates,
                 notified |-> IF updates > 0 THEN netSubs ELSE {}]

\* subscribe(callback): the callback is added and called once.
NetSubscribe(cb) ==
  /\ cb \notin netSubs
  /\ netSubs' = netSubs \cup {cb}
  /\ netLast' = [op |-> "subscribe", updates |-> 0, notified |-> {cb}]
  /\ UNCHANGED <<netState, netOnLine, netConn, netChange, netCleaned>>

\* The window's 'online' / 'offline' event: the anonymous listeners added at
\* construction run updateState({ isOnline }).
NetOnlineEvent(online) ==
  /\ netOnLine # online
  /\ netOnLine' = online
  /\ NetUpdate([netState EXCEPT !.isOnline = online], "online event", 1)
  /\ UNCHANGED <<netConn, netChange, netSubs, netCleaned>>

\* The connection's 'change' event: updateNetworkInformation, while it is
\* registered, runs clearError() and updateState({ effectiveType, ... }).
NetChangeEvent(t) ==
  /\ netState.isSupported
  /\ netConn # t
  /\ netConn' = t
  /\ IF netChange
       THEN NetUpdate([netState EXCEPT !.effectiveType = t, !.error = NoError],
                      "change event", 2)
       ELSE /\ netLast' = [op |-> "change event", updates |-> 0, notified |-> {}]
            /\ UNCHANGED netState
  /\ UNCHANGED <<netOnLine, netChange, netSubs, netCleaned>>

\* cleanup(): connection.removeEventListener('change', updateNetworkInformation)
\* when supported; nothing else.
NetCleanup ==
  /\ netChange' = (netChange /\ ~netState.isSupported)
  /\ netCleaned' = TRUE
  /\ netLast' = [op |-> "cleanup", updates |-> 0, notified |-> {}]
  /\ UNCHANGED <<netState, netOnLine, netConn, netSubs>>

\* Construction in a window: the online and offline listeners are added; with
\* navigator.connection the change listener too, and the first
\* updateNetworkInformation() has run.
NetInit ==
  /\ netOnLine \in BOOLEAN
  /\ netConn \in NetTypes
  /\ \E sup \in BOOLEAN :
       /\ netState = [isSupported |-> sup, isOnline |-> netOnLine,
                      effectiveType |-> IF sup THEN netConn ELSE "null",
                      error |-> NoError]
       /\ netChange = sup
  /\ netSubs = {}
  /\ netCleaned = FALSE
  /\ netLast = [op |-> "construct", updates |-> 0, notified |-> {}]

NetNext ==
  \/ \E cb \in Callbacks : NetSubscribe(cb) /\ UNCHANGED netOthers
  \/ \E online \in BOOLEAN : NetOnlineEvent(online) /\ UNCHANGED netOthers
  \/ \E t \in NetTypes : NetChangeEvent(t) /\ UNCHANGED netOthers
  \/ NetCleanup /\ UNCHANGED netOthers

(***************************************************************************)
(* Construction: useClipboard, useBackgroundSync, useWebAudioAdvanced      *)
(***************************************************************************)
\* The globals an environment has: window and navigator, and the
\* capabilities that hang off them.
CtorEnvs ==
  {e \in [window : BOOLEAN, navigator : BOOLEAN, clipboard : BOOLEAN,
          permissions : BOOLEAN, serviceWorker : BOOLEAN, SyncManager : BOOLEAN,
          AudioContext : BOOLEAN, webkitAudioContext : BOOLEAN] :
     /\ (e.clipboard \/ e.permissions \/ e.serviceWorker) => e.navigator
     /\ (e.SyncManager \/ e.AudioContext \/ e.webkitAudioContext) => e.window}

CtorThrew(adapter, capable, err) ==
  ctorLast' = [adapter |-> adapter, capable |-> capable, outcome |-> err,
               isSupported |-> "none", native |-> 0]

\* isSupported is written "true", "false", or "undefined" for no such field.
CtorFlag(b) == IF b THEN "true" ELSE "false"

CtorReturned(adapter, capable, supported, native) ==
  ctorLast' = [adapter |-> adapter, capable |-> capable, outcome |-> "returned",
               isSupported |-> supported, native |-> native]

\* useClipboard(): typeof navigator.clipboard, window.isSecureContext, then
\* checkPermission(), which queries navigator.permissions when supported.
CtorClipboard ==
  /\ IF ~ctorEnv.navigator \/ ~ctorEnv.window
       THEN CtorThrew("useClipboard", ctorEnv.clipboard, "ReferenceError")
       ELSE CtorReturned("useClipboard", ctorEnv.clipboard, CtorFlag(ctorEnv.clipboard),
                         IF ctorEnv.clipboard /\ ctorEnv.permissions THEN 1 ELSE 0)
  /\ UNCHANGED ctorEnv

\* useBackgroundSync(): 'serviceWorker' in navigator && 'SyncManager' in
\* window, then getTags(), which awaits navigator.serviceWorker.ready when
\* supported.
CtorBackgroundSync ==
  /\ LET capable == ctorEnv.serviceWorker /\ ctorEnv.SyncManager
     IN IF ~ctorEnv.navigator \/ (ctorEnv.serviceWorker /\ ~ctorEnv.window)
          THEN CtorThrew("useBackgroundSync", capable, "ReferenceError")
          ELSE CtorReturned("useBackgroundSync", capable, CtorFlag(capable),
                            IF capable THEN 1 ELSE 0)
  /\ UNCHANGED ctorEnv

\* useWebAudioAdvanced(): new (window.AudioContext || window.webkitAudioContext)();
\* the adapter it returns has no support flag.
CtorWebAudioAdvanced ==
  /\ LET capable == ctorEnv.AudioContext \/ ctorEnv.webkitAudioContext
     IN IF ~ctorEnv.window
          THEN CtorThrew("useWebAudioAdvanced", capable, "ReferenceError")
          ELSE IF ~capable
                 THEN CtorThrew("useWebAudioAdvanced", capable, TypeErr)
                 ELSE CtorReturned("useWebAudioAdvanced", capable, "undefined", 1)
  /\ UNCHANGED ctorEnv

CtorInit ==
  /\ ctorEnv \in CtorEnvs
  /\ ctorLast = [adapter |-> "none", capable |-> FALSE, outcome |-> "none",
                 isSupported |-> "none", native |-> 0]

CtorNext ==
  \/ CtorClipboard /\ UNCHANGED ctorOthers
  \/ CtorBackgroundSync /\ UNCHANGED ctorOthers
  \/ CtorWebAudioAdvanced /\ UNCHANGED ctorOthers

(***************************************************************************)
(* useMediaStream                                                          *)
(***************************************************************************)
MsStreamIds == {"", "cam"}          \* options.streamId; "" for none given
MsNativeId(n) == <<"id1", "id2", "id3", "id4">>[n]    \* stream.id of the n-th stream

MsDone(op, outcome) == msLast' = [op |-> op, outcome |-> outcome]

\* Map.prototype.set on state.streams, a set of [key, stream] with one entry
\* per key.
MsMapSet(m, key, n) == {e \in m : e.key # key} \cup {[key |-> key, stream |-> n]}

\* getStream()/getDisplayMedia() without the API: throws.
MsUnsupported(op) ==
  /\ ~msState.isSupported
  /\ MsDone(op, "rejected:unsupported")
  /\ UNCHANGED <<msState, msCalls, msAcquired, msLive, msMade>>

\* getStream(options)/getDisplayMedia(options) up to the await of the native
\* call: clearError().
MsGetStream(op, streamId) ==
  /\ msState.isSupported
  /\ msMade < MaxStreams
  /\ msMade' = msMade + 1
  /\ msState' = [msState EXCEPT !.error = NoError]
  /\ msCalls' = Append(msCalls, [op |-> op, streamId |-> streamId, stream |-> msMade + 1])
  /\ MsDone(op, "awaiting")
  /\ UNCHANGED <<msAcquired, msLive>>

\* The native call resolves with a new stream: id = streamId || stream.id;
\* state.streams.set(id, stream); updateState; the stream is returned.
MsResolves(i) ==
  /\ i \in 1..Len(msCalls)
  /\ LET c == msCalls[i]
         id == IF c.streamId # "" THEN c.streamId ELSE MsNativeId(c.stream)
     IN /\ msState' = [msState EXCEPT !.streams = MsMapSet(@, id, c.stream)]
        /\ msAcquired' = msAcquired \cup {c.stream}
        /\ msLive' = msLive \cup {c.stream}
        /\ MsDone(c.op, "resolved")
  /\ msCalls' = RemoveAt(msCalls, i)
  /\ UNCHANGED msMade

\* The native call rejects: setError(error); throw error.
MsRejects(i, err) ==
  /\ i \in 1..Len(msCalls)
  /\ msState' = [msState EXCEPT !.error = err]
  /\ MsDone(msCalls[i].op, "rejected:native")
  /\ msCalls' = RemoveAt(msCalls, i)
  /\ UNCHANGED <<msAcquired, msLive, msMade>>

\* stopStream(streamId): the tracks of the stream under that key are stopped
\* and the key deleted; nothing without such a key.
MsStopStream(key) ==
  /\ LET hit == {e \in msState.streams : e.key = key}
     IN /\ msLive' = msLive \ {e.stream : e \in hit}
        /\ msState' = [msState EXCEPT !.streams = @ \ hit]
  /\ MsDone("stopStream", "returned")
  /\ UNCHANGED <<msCalls, msAcquired, msMade>>

\* stopAllStreams(), and cleanup() which calls it: the tracks of every stream
\* in state.streams are stopped and the map cleared.
MsStopAllStreams(op) ==
  /\ msLive' = msLive \ {e.stream : e \in msState.streams}
  /\ msState' = [msState EXCEPT !.streams = {}]
  /\ MsDone(op, "returned")
  /\ UNCHANGED <<msCalls, msAcquired, msMade>>

MsInit ==
  /\ msState \in [isSupported : BOOLEAN, streams : {{}}, error : {NoError}]
  /\ msCalls = <<>>
  /\ msAcquired = {}
  /\ msLive = {}
  /\ msMade = 0
  /\ msLast = [op |-> "construct", outcome |-> "returned"]

MsNext ==
  \/ \E op \in {"getStream", "getDisplayMedia"} : MsUnsupported(op) /\ UNCHANGED msOthers
  \/ \E op \in {"getStream", "getDisplayMedia"}, streamId \in MsStreamIds :
       MsGetStream(op, streamId) /\ UNCHANGED msOthers
  \/ \E i \in 1..MaxStreams : MsResolves(i) /\ UNCHANGED msOthers
  \/ \E i \in 1..MaxStreams, err \in Errors : MsRejects(i, err) /\ UNCHANGED msOthers
  \/ \E key \in (MsStreamIds \ {""}) \cup {MsNativeId(n) : n \in 1..MaxStreams} :
       MsStopStream(key) /\ UNCHANGED msOthers
  \/ \E op \in {"stopAllStreams", "cleanup"} : MsStopAllStreams(op) /\ UNCHANGED msOthers

(***************************************************************************)
(* useWebMIDI: the message listeners of one input                          *)
(***************************************************************************)
MidiCallbacks == {"m1", "m2"}       \* message callbacks (function identities)

\* The callbacks with a registration whose disposer has not been called.
MidiRegistered == {midiRegs[r].cb : r \in {q \in 1..Len(midiRegs) : midiRegs[q].attached}}

\* addMessageListener(input, callback): the Set of the input is created when
\* messageListeners has none, the callback added to it, and a new
\* handleMessage closed over that Set is added to the input.
MidiAddMessageListener(cb) ==
  /\ Len(midiRegs) < MaxRegs
  /\ LET set == IF midiCur = 0 THEN Len(midiRegs) + 1 ELSE midiCur
     IN /\ midiSets' = [midiSets EXCEPT ![set] = @ \cup {cb}]
        /\ midiCur' = set
        /\ midiRegs' = Append(midiRegs, [cb |-> cb, set |-> set, attached |-> TRUE])
  /\ midiLast' = [op |-> "addMessageListener", counts |-> [c \in MidiCallbacks |-> 0]]

\* The disposer of the r-th registration (it may be called again): its
\* handleMessage is removed from the input, the callback deleted from the
\* Set it closed over, and with that Set empty messageListeners loses the
\* input's entry.
MidiDispose(r) ==
  /\ r \in 1..Len(midiRegs)
  /\ midiRegs' = [midiRegs EXCEPT ![r].attached = FALSE]
  /\ midiSets' = [midiSets EXCEPT ![midiRegs[r].set] = @ \ {midiRegs[r].cb}]
  /\ midiCur' = IF midiSets'[midiRegs[r].set] = {} THEN 0 ELSE midiCur
  /\ midiLast' = [op |-> "dispose", counts |-> [c \in MidiCallbacks |-> 0]]

\* A 'midimessage' event on the input: every handleMessage still on the
\* input runs inputListeners.forEach over the Set it closed over.
MidiMessage ==
  /\ midiLast' = [op |-> "midimessage",
                  counts |-> [c \in MidiCallbacks |->
                     Cardinality({r \in 1..Len(midiRegs) :
                        midiRegs[r].attached /\ c \in midiSets[midiRegs[r].set]})]]
  /\ UNCHANGED <<midiRegs, midiSets, midiCur>>

MidiInit ==
  /\ midiRegs = <<>>
  /\ midiSets = [n \in 1..(MaxRegs + 1) |-> {}]
  /\ midiCur = 0
  /\ midiLast = [op |-> "construct", counts |-> [c \in MidiCallbacks |-> 0]]

MidiNext ==
  \/ \E cb \in MidiCallbacks : MidiAddMessageListener(cb) /\ UNCHANGED midiOthers
  \/ \E r \in 1..MaxRegs : MidiDispose(r) /\ UNCHANGED midiOthers
  \/ MidiMessage /\ UNCHANGED midiOthers

(***************************************************************************)
(* useWebNFC: scanning                                                     *)
(***************************************************************************)
NfcDone(op, outcome) == nfcLast' = [op |-> op, outcome |-> outcome]

\* The effect of readingAbortController.abort() on the native scans: those
\* that were given that controller's signal are aborted, a scan under way
\* ends, a scan() not yet settled will reject.
NfcAbortOwn(scans, ctl) ==
  [i \in 1..Len(scans) |->
     IF scans[i].ctl = ctl /\ scans[i].sig = "none"
       THEN [scans[i] EXCEPT !.aborted = TRUE,
                             !.phase = IF @ = "scanning" THEN "ended" ELSE @]
       ELSE scans[i]]

\* startScanning() without NDEFReader: throws.
NfcUnsupported ==
  /\ ~nfcState.isSupported
  /\ NfcDone("startScanning", "rejected:unsupported")
  /\ UNCHANGED <<nfcState, nfcCtl, nfcScans>>

\* startScanning(options) up to `await ndefReader.scan(options)`:
\* clearError(); stopScanning() if isReading; a new readingAbortController,
\* whose signal is used only when the caller gave none; isReading true.
NfcStartScanning(sig) ==
  /\ nfcState.isSupported
  /\ Len(nfcScans) < MaxScans
  /\ LET stopped == IF nfcState.isReading /\ nfcCtl # 0
                      THEN NfcAbortOwn(nfcScans, nfcCtl) ELSE nfcScans
     IN nfcScans' = Append(stopped, [sig |-> sig, ctl |-> Len(nfcScans) + 1,
                                     phase |-> "pending", aborted |-> FALSE])
  /\ nfcCtl' = Len(nfcScans) + 1
  /\ nfcState' = [nfcState EXCEPT !.isReading = TRUE, !.error = NoError]
  /\ NfcDone("startScanning", "awaiting")

\* scan() resolves: the scan is under way, onreading and onreadingerror are
\* set and startScanning() resolves.
NfcScanResolves(i) ==
  /\ i \in 1..Len(nfcScans)
  /\ nfcScans[i].phase = "pending"
  /\ ~nfcScans[i].aborted
  /\ nfcScans' = [nfcScans EXCEPT ![i].phase = "scanning"]
  /\ NfcDone("startScanning", "resolved")
  /\ UNCHANGED <<nfcState, nfcCtl>>

\* scan() rejects, with an AbortError when its signal was aborted:
\* updateState({ isReading: false }); setError(error); throw error.
NfcScanRejects(i, err) ==
  /\ i \in 1..Len(nfcScans)
  /\ nfcScans[i].phase = "pending"
  /\ nfcScans[i].aborted <=> err = AbortErr
  /\ nfcScans' = [nfcScans EXCEPT ![i].phase = "ended"]
  /\ nfcState' = [nfcState EXCEPT !.isReading = FALSE, !.error = err]
  /\ NfcDone("startScanning", "rejected:native")
  /\ UNCHANGED nfcCtl

\* stopScanning(): with a readingAbortController, abort it, forget it and
\* set isReading false; else nothing.
NfcStopScanning ==
  /\ IF nfcCtl # 0
       THEN /\ nfcScans' = NfcAbortOwn(nfcScans, nfcCtl)
            /\ nfcCtl' = 0
            /\ nfcState' = [nfcState EXCEPT !.isReading = FALSE]
       ELSE UNCHANGED <<nfcState, nfcCtl, nfcScans>>
  /\ NfcDone("stopScanning", "returned")

\* The caller aborts the signal it passed in options.signal.
NfcCallerAborts(i) ==
  /\ i \in 1..Len(nfcScans)
  /\ nfcScans[i].sig = "live"
  /\ ~nfcScans[i].aborted
  /\ nfcScans[i].phase # "ended"
  /\ nfcScans' = [nfcScans EXCEPT ![i].aborted = TRUE,
                                  ![i].phase = IF @ = "scanning" THEN "ended" ELSE @]
  /\ NfcDone("abort", "event")
  /\ UNCHANGED <<nfcState, nfcCtl>>

NfcInit ==
  /\ nfcState \in [isSupported : BOOLEAN, isReading : {FALSE}, error : {NoError}]
  /\ nfcCtl = 0
  /\ nfcScans = <<>>
  /\ nfcLast = [op |-> "construct", outcome |-> "returned"]

NfcNext ==
  \/ NfcUnsupported /\ UNCHANGED nfcOthers
  \/ \E sig \in {"none", "live"} : NfcStartScanning(sig) /\ UNCHANGED nfcOthers
  \/ \E i \in 1..MaxScans : NfcScanResolves(i) /\ UNCHANGED nfcOthers
  \/ \E i \in 1..MaxScans, err \in Errors \cup {AbortErr} :
       NfcScanRejects(i, err) /\ UNCHANGED nfcOthers
  \/ NfcStopScanning /\ UNCHANGED nfcOthers
  \/ \E i \in 1..MaxScans : NfcCallerAborts(i) /\ UNCHANGED nfcOthers

(***************************************************************************)
(* useConsole                                                              *)
(***************************************************************************)
ConTypes == {"log", "error"}            \* two of the five logger types
ConSizes == (0 - 1)..MaxSize            \* arguments of setMaxHistorySize
ConOptionSizes == 0..MaxSize            \* options.maxHistorySize

IsSuffix(a, b) ==
  Len(a) <= Len(b) /\ a = SubSeq(b, Len(b) - Len(a) + 1, Len(b))

\* Array.prototype.shift: the first element is removed, if there is one.
ConShifted(h) == IF h = <<>> THEN <<>> ELSE Tail(h)

\* addToHistory without the eviction.
ConAddToHistoryKeep(st, h, entry) ==
  IF ~st.historyEnabled THEN h ELSE Append(h, entry)

\* addToHistory(entry): nothing when the history is off; else push, and one
\* shift when the length exceeds maxHistorySize.
ConAddToHistory(st, h, entry) ==
  IF ~st.historyEnabled THEN h
  ELSE IF Len(h) + 1 > st.maxHistorySize THEN ConShifted(Append(h, entry))
  ELSE Append(h, entry)

\* A logger made by createLogger(type) is called: nothing without console;
\* else console[type](...) and addToHistory(entry).
ConLog(type) ==
  /\ conPc = "idle"
  /\ conCount < MaxLogs
  /\ conCount' = conCount + 1
  /\ LET entry == [type |-> type, n |-> conCount + 1]
     IN IF conState.isSupported
          THEN /\ conHistory' = ConAddToHistory(conState, conHistory, entry)
               /\ conLogged' = Append(conLogged, [entry |-> entry,
                                                  enabled |-> conState.historyEnabled])
          ELSE UNCHANGED <<conHistory, conLogged>>
  /\ UNCHANGED <<conState, conPc, conTurns>>

\* clearHistory(): history.length = 0.
ConClearHistory ==
  /\ conPc = "idle"
  /\ conHistory' = <<>>
  /\ conLogged' = <<>>
  /\ UNCHANGED <<conState, conPc, conCount, conTurns>>

\* setHistoryEnabled(enabled)
ConSetHistoryEnabled(enabled) ==
  /\ conPc = "idle"
  /\ conState' = [conState EXCEPT !.historyEnabled = enabled]
  /\ UNCHANGED <<conHistory, conLogged, conPc, conCount, conTurns>>

\* setMaxHistorySize(size): updateState({ maxHistorySize: size }), then the
\* while loop is entered.
ConSetMaxHistorySize(size) ==
  /\ conPc = "idle"
  /\ conState' = [conState EXCEPT !.maxHistorySize = size]
  /\ conPc' = "while"
  /\ conTurns' = 0
  /\ UNCHANGED <<conHistory, conLogged, conCount>>

\* One turn of `while (history.length > size) history.shift()`.
ConWhileShift ==
  /\ conPc = "while"
  /\ Len(conHistory) > conState.maxHistorySize
  /\ conHistory' = ConShifted(conHistory)
  /\ conTurns' = (conTurns + 1) % 2
  /\ UNCHANGED <<conState, conLogged, conPc, conCount>>

\* The loop condition is false: setMaxHistorySize returns.
ConWhileExit ==
  /\ conPc = "while"
  /\ ~(Len(conHistory) > conState.maxHistorySize)
  /\ conPc' = "idle"
  /\ UNCHANGED <<conState, conHistory, conLogged, conCount, conTurns>>

ConInit ==
  /\ conState \in [isSupported : BOOLEAN, historyEnabled : BOOLEAN,
                   maxHistorySize : ConOptionSizes]
  /\ conHistory = <<>>
  /\ conLogged = <<>>
  /\ conPc = "idle"
  /\ conCount = 0
  /\ conTurns = 0

ConNext ==
  \/ \E type \in ConTypes : ConLog(type) /\ UNCHANGED conOthers
  \/ ConClearHistory /\ UNCHANGED conOthers
  \/ \E enabled \in BOOLEAN : ConSetHistoryEnabled(enabled) /\ UNCHANGED conOthers
  \/ \E size \in ConSizes : ConSetMaxHistorySize(size) /\ UNCHANGED conOthers
  \/ ConWhileShift /\ UNCHANGED conOthers
  \/ ConWhileExit /\ UNCHANGED conOthers

(***************************************************************************)
(* Specifications: one hook is constructed and runs.                       *)
(***************************************************************************)
\* A hook that is not under examination is not constructed.
NotBuilt == "-"

HidRest ==
  /\ hidState = NotBuilt
  /\ hidListeners = NotBuilt
  /\ hidPending = NotBuilt
  /\ hidDead = NotBuilt
  /\ hidLast = NotBuilt
  /\ hidTrace = NotBuilt

VisRest ==
  /\ visState = NotBuilt
  /\ visDoc = NotBuilt
  /\ visNative = NotBuilt
  /\ visListeners = NotBuilt
  /\ visDead = NotBuilt
  /\ visLast = NotBuilt
  /\ visTrace = NotBuilt

FsRest ==
  /\ fsState = NotBuilt
  /\ fsElement = NotBuilt
  /\ fsTimer = NotBuilt
  /\ fsNative = NotBuilt
  /\ fsCalls = NotBuilt
  /\ fsListeners = NotBuilt
  /\ fsLast = NotBuilt
  /\ fsTrace = NotBuilt

RtcRest ==
  /\ rtcSupported = NotBuilt
  /\ rtcState = NotBuilt
  /\ rtcPeer = NotBuilt
  /\ rtcChannel = NotBuilt
  /\ rtcCalls = NotBuilt
  /\ rtcLast = NotBuilt

IdleRest ==
  /\ idleState = NotBuilt
  /\ idleDetector = NotBuilt
  /\ idleDets = NotBuilt
  /\ idleCalls = NotBuilt
  /\ idleLast = NotBuilt

WlRest ==
  /\ wlState = NotBuilt
  /\ wlSentinels = NotBuilt
  /\ wlCalls = NotBuilt
  /\ wlDoc = NotBuilt
  /\ wlLost = NotBuilt
  /\ wlLast = NotBuilt

BgRest ==
  /\ bgState = NotBuilt
  /\ bgTasks = NotBuilt
  /\ bgAborted = NotBuilt
  /\ bgLast = NotBuilt

SchedRest ==
  /\ schedState = NotBuilt
  /\ schedCalls = NotBuilt
  /\ schedCtl = NotBuilt
  /\ schedLast = NotBuilt

LsRest ==
  /\ lsKey = NotBuilt
  /\ lsInitial = NotBuilt
  /\ lsStore = NotBuilt
  /\ lsFull = NotBuilt
  /\ lsSet = NotBuilt
  /\ lsLast = NotBuilt

BcRest ==
  /\ bcState = NotBuilt
  /\ bcChannel = NotBuilt
  /\ bcMsgListeners = NotBuilt
  /\ bcInbox = NotBuilt
  /\ bcPosts = NotBuilt
  /\ bcGot = NotBuilt
  /\ bcDue = NotBuilt
  /\ bcExpect = NotBuilt
  /\ bcSteady = NotBuilt
  /\ bcLast = NotBuilt

ClipRest ==
  /\ clipState = NotBuilt
  /\ clipPerm = NotBuilt
  /\ clipText = NotBuilt
  /\ clipCalls = NotBuilt
  /\ clipLast = NotBuilt

LkRest ==
  /\ lkState = NotBuilt
  /\ lkCalls = NotBuilt
  /\ lkMade = NotBuilt
  /\ lkQueries = NotBuilt
  /\ lkLast = NotBuilt

MrRest ==
  /\ mrState = NotBuilt
  /\ mrRecorder = NotBuilt
  /\ mrCalls = NotBuilt
  /\ mrLive = NotBuilt
  /\ mrStopping = NotBuilt
  /\ mrStreams = NotBuilt
  /\ mrMade = NotBuilt
  /\ mrOverlap = NotBuilt
  /\ mrLast = NotBuilt

NetRest ==
  /\ netState = NotBuilt
  /\ netOnLine = NotBuilt
  /\ netConn = NotBuilt
  /\ netChange = NotBuilt
  /\ netSubs = NotBuilt
  /\ netCleaned = NotBuilt
  /\ netLast = NotBuilt

CtorRest ==
  /\ ctorEnv = NotBuilt
  /\ ctorLast = NotBuilt

MsRest ==
  /\ msState = NotBuilt
  /\ msCalls = NotBuilt
  /\ msAcquired = NotBuilt
  /\ msLive = NotBuilt
  /\ msMade = NotBuilt
  /\ msLast = NotBuilt

MidiRest ==
  /\ midiRegs = NotBuilt
  /\ midiSets = NotBuilt
  /\ midiCur = NotBuilt
  /\ midiLast = NotBuilt

NfcRest ==
  /\ nfcState = NotBuilt
  /\ nfcCtl = NotBuilt
  /\ nfcScans = NotBuilt
  /\ nfcLast = NotBuilt

ConRest ==
  /\ conState = NotBuilt
  /\ conHistory = NotBuilt
  /\ conLogged = NotBuilt
  /\ conPc = NotBuilt
  /\ conCount = NotBuilt
  /\ conTurns = NotBuilt

InitHID ==
  HidInit /\ VisRest /\ FsRest /\ RtcRest /\ IdleRest /\ WlRest /\
  BgRest /\ SchedRest /\ LsRest /\ BcRest /\ ClipRest /\ LkRest /\ MrRest /\
  NetRest /\ CtorRest /\ MsRest /\ MidiRest /\ NfcRest /\ ConRest
InitVis ==
  VisInit /\ HidRest /\ FsRest /\ RtcRest /\ IdleRest /\ WlRest /\
  BgRest /\ SchedRest /\ LsRest /\ BcRest /\ ClipRest /\ LkRest /\ MrRest /\
  NetRest /\ CtorRest /\ MsRest /\ MidiRest /\ NfcRest /\ ConRest
InitFs ==
  FsInit /\ HidRest /\ VisRest /\ RtcRest /\ IdleRest /\ WlRest /\
  BgRest /\ SchedRest /\ LsRest /\ BcRest /\ ClipRest /\ LkRest /\ MrRest /\
  NetRest /\ CtorRest /\ MsRest /\ MidiRest /\ NfcRest /\ ConRest
InitRtc ==
  RtcInit /\ HidRest /\ VisRest /\ FsRest /\ IdleRest /\ WlRest /\
  BgRest /\ SchedRest /\ LsRest /\ BcRest /\ ClipRest /\ LkRest /\ MrRest /\
  NetRest /\ CtorRest /\ MsRest /\ MidiRest /\ NfcRest /\ ConRest
InitIdle ==
  IdleInit /\ HidRest /\ VisRest /\ FsRest /\ RtcRest /\
  WlRest /\ BgRest /\ SchedRest /\ LsRest /\ BcRest /\ ClipRest /\ LkRest /\
  MrRest /\ NetRest /\ CtorRest /\ MsRest /\ MidiRest /\ NfcRest /\ ConRest
InitWl ==
  WlInit /\ HidRest /\ VisRest /\ FsRest /\ RtcRest /\ IdleRest /\
  BgRest /\ SchedRest /\ LsRest /\ BcRest /\ ClipRest /\ LkRest /\ MrRest /\
  NetRest /\ CtorRest /\ MsRest /\ MidiRest /\ NfcRest /\ ConRest
InitBg ==
  BgInit /\ HidRest /\ VisRest /\ FsRest /\ RtcRest /\ IdleRest /\
  WlRest /\ SchedRest /\ LsRest /\ BcRest /\ ClipRest /\ LkRest /\ MrRest /\
  NetRest /\ CtorRest /\ MsRest /\ MidiRest /\ NfcRest /\ ConRest
InitSched ==
  SchedInit /\ HidRest /\ VisRest /\ FsRest /\ RtcRest /\
  IdleRest /\ WlRest /\ BgRest /\ LsRest /\ BcRest /\ ClipRest /\ LkRest /\
  MrRest /\ NetRest /\ CtorRest /\ MsRest /\ MidiRest /\ NfcRest /\ ConRest
InitLs ==
  LsInit /\ HidRest /\ VisRest /\ FsRest /\ RtcRest /\ IdleRest /\
  WlRest /\ BgRest /\ SchedRest /\ BcRest /\ ClipRest /\ LkRest /\ MrRest /\
  NetRest /\ CtorRest /\ MsRest /\ MidiRest /\ NfcRest /\ ConRest
InitBc ==
  BcInit /\ HidRest /\ VisRest /\ FsRest /\ RtcRest /\ IdleRest /\
  WlRest /\ BgRest /\ SchedRest /\ LsRest /\ ClipRest /\ LkRest /\ MrRest /\
  NetRest /\ CtorRest /\ MsRest /\ MidiRest /\ NfcRest /\ ConRest
InitClip ==
  ClipInit /\ HidRest /\ VisRest /\ FsRest /\ RtcRest /\
  IdleRest /\ WlRest /\ BgRest /\ SchedRest /\ LsRest /\ BcRest /\ LkRest /\
  MrRest /\ NetRest /\ CtorRest /\ MsRest /\ MidiRest /\ NfcRest /\ ConRest
InitLk ==
  LkInit /\ HidRest /\ VisRest /\ FsRest /\ RtcRest /\ IdleRest /\
  WlRest /\ BgRest /\ SchedRest /\ LsRest /\ BcRest /\ ClipRest /\ MrRest /\
  NetRest /\ CtorRest /\ MsRest /\ MidiRest /\ NfcRest /\ ConRest
InitMr ==
  MrInit /\ HidRest /\ VisRest /\ FsRest /\ RtcRest /\ IdleRest /\
  WlRest /\ BgRest /\ SchedRest /\ LsRest /\ BcRest /\ ClipRest /\ LkRest /\
  NetRest /\ CtorRest /\ MsRest /\ MidiRest /\ NfcRest /\ ConRest
InitNet ==
  NetInit /\ HidRest /\ VisRest /\ FsRest /\ RtcRest /\
  IdleRest /\ WlRest /\ BgRest /\ SchedRest /\ LsRest /\ BcRest /\
  ClipRest /\ LkRest /\ MrRest /\ CtorRest /\ MsRest /\ MidiRest /\
  NfcRest /\ ConRest
InitCtor ==
  CtorInit /\ HidRest /\ VisRest /\ FsRest /\ RtcRest /\
  IdleRest /\ WlRest /\ BgRest /\ SchedRest /\ LsRest /\ BcRest /\
  ClipRest /\ LkRest /\ MrRest /\ NetRest /\ MsRest /\ MidiRest /\ NfcRest /\
  ConRest
InitMs ==
  MsInit /\ HidRest /\ VisRest /\ FsRest /\ RtcRest /\ IdleRest /\
  WlRest /\ BgRest /\ SchedRest /\ LsRest /\ BcRest /\ ClipRest /\ LkRest /\
  MrRest /\ NetRest /\ CtorRest /\ MidiRest /\ NfcRest /\ ConRest
InitMidi ==
  MidiInit /\ HidRest /\ VisRest /\ FsRest /\ RtcRest /\
  IdleRest /\ WlRest /\ BgRest /\ SchedRest /\ LsRest /\ BcRest /\
  ClipRest /\ LkRest /\ MrRest /\ NetRest /\ CtorRest /\ MsRest /\ NfcRest /\
  ConRest
InitNfc ==
  NfcInit /\ HidRest /\ VisRest /\ FsRest /\ RtcRest /\
  IdleRest /\ WlRest /\ BgRest /\ SchedRest /\ LsRest /\ BcRest /\
  ClipRest /\ LkRest /\ MrRest /\ NetRest /\ CtorRest /\ MsRest /\
  MidiRest /\ ConRest
InitCon ==
  ConInit /\ HidRest /\ VisRest /\ FsRest /\ RtcRest /\
  IdleRest /\ WlRest /\ BgRest /\ SchedRest /\ LsRest /\ BcRest /\
  ClipRest /\ LkRest /\ MrRest /\ NetRest /\ CtorRest /\ MsRest /\
  MidiRest /\ NfcRest

RtcNext ==
  \/ RtcCreateUnsupported /\ UNCHANGED rtcOthers
  \/ RtcCreatePeerConnection /\ UNCHANGED rtcOthers
  \/ \E err \in Errors : RtcCreateThrows(err) /\ UNCHANGED rtcOthers
  \/ \E ice \in {"connected", "disconnected", "closed"} :
       RtcIceChange(ice) /\ UNCHANGED rtcOthers
  \/ \E op \in RtcOps : RtcNoPeer(op) /\ UNCHANGED rtcOthers
  \/ \E op \in RtcOps : RtcStart(op) /\ UNCHANGED rtcOthers
  \/ \E i \in 1..MaxPending : RtcResolve(i) /\ UNCHANGED rtcOthers
  \/ \E i \in 1..MaxPending, err \in Errors : RtcReject(i, err) /\ UNCHANGED rtcOthers
  \/ RtcCreateDataChannel /\ UNCHANGED rtcOthers
  \/ \E err \in Errors : RtcCreateDataChannelThrows(err) /\ UNCHANGED rtcOthers
  \/ RtcClose /\ UNCHANGED rtcOthers

IdleNext ==
  \/ \E op \in {"start", "requestPermission"} : IdleUnsupported(op) /\ UNCHANGED idleOthers
  \/ \E op \in {"start", "requestPermission"}, sig \in Signals :
       IdleBegin(op, sig) /\ UNCHANGED idleOthers
  \/ \E i \in 1..MaxPending, perm \in {"granted", "denied", "prompt"},
        stopErr \in {NoError, TypeErr} :
       IdlePermission(i, perm, stopErr) /\ UNCHANGED idleOthers
  \/ \E i \in 1..MaxPending, err \in Errors : IdlePermissionFails(i, err) /\ UNCHANGED idleOthers
  \/ \E i \in 1..MaxPending : IdleAfterStop(i) /\ UNCHANGED idleOthers
  \/ \E i \in 1..MaxPending : IdleStarted(i) /\ UNCHANGED idleOthers
  \/ \E i \in 1..MaxPending, err \in Errors \cup {AbortErr} :
       IdleStartFails(i, err) /\ UNCHANGED idleOthers
  \/ \E i \in 1..MaxPending : IdleAbort(i) /\ UNCHANGED idleOthers
  \/ \E d \in 1..MaxDetectors : IdleAbortRunning(d) /\ UNCHANGED idleOthers
  \/ \E d \in 1..MaxDetectors, idle \in BOOLEAN, locked \in BOOLEAN :
       IdleChange(d, idle, locked) /\ UNCHANGED idleOthers
  \/ IdleStop /\ UNCHANGED idleOthers
  \/ \E err \in {TypeErr} : IdleStopThrows(err) /\ UNCHANGED idleOthers

WlNext ==
  \/ WlUnsupported /\ UNCHANGED wlOthers
  \/ WlRequest /\ UNCHANGED wlOthers
  \/ \E i \in 1..MaxPending : WlGranted(i) /\ UNCHANGED wlOthers
  \/ \E i \in 1..MaxPending : WlRefused(i) /\ UNCHANGED wlOthers
  \/ WlReleaseLock /\ UNCHANGED wlOthers
  \/ WlHide /\ UNCHANGED wlOthers
  \/ WlShow /\ UNCHANGED wlOthers

BgNext ==
  \/ BgUnsupported /\ UNCHANGED bgOthers
  \/ \E sig \in BgSignals \cup {NoSignal} : BgScheduleTask(sig) /\ UNCHANGED bgOthers
  \/ \E t \in 1..MaxTasks : BgIdle(t) /\ UNCHANGED bgOthers
  \/ \E sig \in BgSignals : BgAbort(sig) /\ UNCHANGED bgOthers

SchedNext ==
  \/ \E id \in TaskIds, sig \in Signals, delay \in BOOLEAN :
       SchedPostTask(id, sig, delay) /\ UNCHANGED schedOthers
  \/ \E i \in 1..MaxPosts : SchedWaitOver(i) /\ UNCHANGED schedOthers
  \/ \E i \in 1..MaxPosts : SchedAbortedBeforeRun(i) /\ UNCHANGED schedOthers
  \/ \E i \in 1..MaxPosts : SchedDelayOver(i) /\ UNCHANGED schedOthers
  \/ \E i \in 1..MaxPosts : SchedNativeRun(i) /\ UNCHANGED schedOthers
  \/ \E i \in 1..MaxPosts, ok \in BOOLEAN : SchedCallbackSettles(i, ok) /\ UNCHANGED schedOthers
  \/ \E i \in 1..MaxPosts : SchedAbortSignal(i) /\ UNCHANGED schedOthers
  \/ \E id \in TaskIds : SchedCancelTask(id) /\ UNCHANGED schedOthers
  \/ SchedCancelAllTasks /\ UNCHANGED schedOthers

(***************************************************************************)
(* Properties                                                              *)
(***************************************************************************)
IsCall(e) == e.t = "call"

\* C1: subscribe(cb) invokes cb exactly once, before it returns, with the
\* snapshot the state accessor returns at that moment (and invokes no other
\* subscriber).
C1_SubscribeReplaysOnce ==
  hidLast.op = "subscribe" =>
    SelectSeq(hidTrace, IsCall) = <<CallEv(hidLast.cb, hidState)>>

\* A subscribe on an adapter whose snapshot has moved on from the initial
\* one (an error and a device recorded) and that has other subscribers.
C1_Witness ==
  /\ hidLast.op = "subscribe"
  /\ hidState.error # NoError
  /\ hidState.devices # <<>>
  /\ Len(hidListeners) >= 2
  /\ Len(hidTrace) >= 1

\* C2: once the disposer of cb has been called, no snapshot update invokes
\* cb: not a later update (cb is invoked again only by subscribing it
\* again), and not the rest of the notification in which the disposer was
\* called, whether or not other subscribers remain.
C2_NoCallAfterDispose ==
  [][\A j \in 1..Len(hidTrace') :
       IsCall(hidTrace'[j]) =>
         /\ hidTrace'[j].cb \in hidDead =>
              (hidLast'.op = "subscribe" /\ hidLast'.cb = hidTrace'[j].cb)
         /\ \A i \in 1..(j - 1) : hidTrace'[i] # DisposeEv(hidTrace'[j].cb)]_vars

\* A snapshot update during which one subscriber's disposer was called and
\* a subscriber was still invoked afterwards, with subscribers remaining.
C2_Witness ==
  /\ hidLast.op \in {"getDevices", "connect", "disconnect"}
  /\ hidListeners # <<>>
  /\ \E i, j \in 1..Len(hidTrace) :
       /\ i < j
       /\ hidTrace[i].t = "dispose"
       /\ hidTrace[i].cb \in hidDead
       /\ IsCall(hidTrace[j])

\* C3: after one subscriber's disposer has been called, the subscribers
\* still registered receive every later snapshot update, those driven by
\* 'visibilitychange' included.
C3_OthersStillNotified ==
  (visLast.op = "visibilitychange" /\ visDead # {}) =>
    visTrace = NotifyAll(visListeners, VisSnapshot(visDoc))

\* C4: whenever the snapshot changes, every registered subscriber is
\* invoked within the update, in registration order, with the new snapshot.
C4_EveryChangeNotified ==
  fsLast.changed => fsTrace = NotifyAll(fsListeners, fsState)

\* C5: on an adapter built without its capability no operation runs the
\* requested work: no postTask callback is ever started.
C5_UnsupportedNeverRuns ==
  ~schedState.isSupported => \A i \in 1..Len(schedCalls) : ~schedCalls[i].started

\* C6: when the native call behind an operation fails, the operation rejects
\* and the snapshot's error field holds that error.
C6_FailureRejectsAndRecords ==
  (rtcLast.op \in RtcOps /\ rtcLast.failure # NoError) =>
    (rtcLast.outcome = "rejected" /\ rtcState.error = rtcLast.failure)

\* C7: at the start of every operation attempt the snapshot's error field is
\* null.
C7_ClearBeforeTry ==
  (rtcLast.op \in RtcOps /\ rtcLast.outcome = "started") => rtcState.error = NoError

\* C8: a start-class operation invoked while the resource of an earlier
\* invocation is still held returns that same resource (or rejects); it
\* never acquires a second one.
C8_StartTwiceSameHandle ==
  (/\ wlLast.op = "requestLock"
   /\ wlLast.outcome = "resolved"
   /\ wlLast.held # 0
   /\ wlSentinels[wlLast.held] = "active") => wlLast.sentinel = wlLast.held

\* C9: an operation started with a signal that is already aborted rejects
\* with an 'aborted' error and changes no counter of the snapshot.
C9_AbortedStartHasNoEffect ==
  (bgLast.op = "scheduleTask" /\ bgLast.sigAborted) =>
    (bgLast.outcome = "rejected:aborted" /\ bgState.pendingTasks = bgLast.before)

\* C10: the abort of an operation's signal is never recorded in the
\* snapshot's error field.
C10_AbortNotRecorded == idleState.error # AbortErr

\* C11: a postTask call whose cancellation was asked for (cancelTask(task.id)
\* or an abort of task.signal) before its callback began never runs the
\* callback, and rejects with an AbortError.
C11_CancelledNeverRuns ==
  \A i \in 1..Len(schedCalls) : schedCalls[i].asked => ~schedCalls[i].started

C14_BothReceiveEveryPost ==
  BcBothListen =>
    \A cb \in BcCallbacks :
      /\ IsPrefix(bcGot[cb], bcDue[cb])
      /\ BcQuiet => bcGot[cb] = bcDue[cb]

\* C14 (amended): each of the two receives, exactly once and in post order,
\* every message with data other than null that is posted through the
\* postMessage of another adapter of the name.
C14_BothReceiveOthersPosts ==
  BcBothListen =>
    \A cb \in BcCallbacks :
      /\ IsPrefix(bcGot[cb], bcExpect[cb])
      /\ BcQuiet => bcGot[cb] = bcExpect[cb]

\* Two listeners on the same adapter have both received the two messages
\* another adapter posted.
C14_Witness ==
  /\ BcBothListen
  /\ BcQuiet
  /\ BcHome("L1") = BcHome("L2")
  /\ Len(bcGot["L1"]) = 2
  /\ bcGot["L2"] = bcGot["L1"]
  /\ bcGot["L1"][1].n < bcGot["L1"][2].n

\* C15: a readText() that resolves, resolves with the text the clipboard
\* holds at that moment, never with a placeholder; otherwise it rejects.
C15_ReadNeverPlaceholder ==
  (clipLast.op = "readText" /\ clipLast.outcome = "resolved") => clipLast.value = clipText

\* C16: a snapshot that was delivered (or read) is never modified: after
\* every step the snapshot that was current before it still shows the
\* heldLocks it showed then.
C16_SnapshotNeverModified == lkLast.beforeNow = lkLast.before

\* The entries of a name in heldLocks, and the calls holding a lock of it.
LkEntriesOf(name) == Len(SelectSeq(lkState.heldLocks, LAMBDA e : e.name = name))
LkHoldersOf(name) == Cardinality({i \in LkRunning : lkCalls[i].name = name})

\* C19: while a call's callback holds a granted lock, heldLocks has an entry
\* for it; when no callback holds a lock and no removal is pending,
\* heldLocks is empty.
C19_HeldLocksInSync ==
  /\ \A name \in LkNames : LkHoldersOf(name) <= LkEntriesOf(name)
  /\ (LkRunning = {} /\ lkQueries = 0 /\ \A i \in 1..Len(lkCalls) : ~lkCalls[i].timer)
       => lkState.heldLocks = <<>>

\* C20: under every interleaving of start() calls at most one MediaRecorder
\* and one acquired stream exist per adapter at any time.
C20_OneRecordingAtATime ==
  /\ Cardinality(mrLive \cup mrStopping) <= 1
  /\ Cardinality(mrStreams) <= 1

\* C18: after cleanup() has returned, no native event changes the snapshot
\* or notifies a subscriber.
C18_SilentAfterCleanup ==
  (netCleaned /\ netLast.op \in {"online event", "change event"})
    => (netLast.updates = 0 /\ netLast.notified = {})

\* C17: in an environment with window and navigator where the wrapped
\* capability is absent, constructing the adapter returns, the adapter's
\* support flag is false and construction made no native call.
C17_ConstructNeverThrows ==
  (ctorLast.adapter # "none" /\ ctorEnv.window /\ ctorEnv.navigator /\ ~ctorLast.capable)
    => (ctorLast.outcome = "returned" /\ ctorLast.isSupported = "false"
        /\ ctorLast.native = 0)

\* C21: whenever start() rejects with 'Recording already in progress', the
\* recorder in place comes from a start() that resolved and has not been
\* stopped.
C21_InProgressMeansRecording ==
  (mrLast.op = "start" /\ mrLast.outcome = "rejected:in progress")
    => mrRecorder \in mrLive

\* C22: when no two start() calls overlapped, the 'stop' event of a recorder
\* never stops the tracks of the stream acquired for another recording that
\* is still going on.
C22_StopEventOwnStream ==
  (mrLast.op = "stop event" /\ ~mrOverlap /\ mrLast.stopped \in mrLive)
    => mrLast.stopped = mrLast.recorder

\* C23: activeTaskCount is never lower than the number of postTask calls
\* whose callback is executing.
C23_CountCoversExecuting ==
  schedState.activeTaskCount
    >= Cardinality({i \in 1..Len(schedCalls) : schedCalls[i].phase = "run"})

\* C24: when cleanup() or stopAllStreams() has returned, every stream the
\* adapter returned before has all its tracks stopped.
C24_TeardownStopsEveryStream ==
  msLast.op \in {"cleanup", "stopAllStreams"} => msAcquired \cap msLive = {}

\* C25: when hiding the page released an active wake lock and the page
\* becomes visible again, the visibilitychange handler issues a new
\* wakeLock.request.
C25_ReacquiresOnVisible ==
  (wlLast.op = "visibilitychange" /\ wlDoc = "visible" /\ wlLost) => wlCalls # <<>>

\* C26: pendingTasks is never negative and equals the number of tasks
\* scheduled that have neither run nor been cancelled.
C26_PendingTasksExact ==
  /\ bgState.pendingTasks >= 0
  /\ bgState.pendingTasks
       = Cardinality({t \in 1..Len(bgTasks) : bgTasks[t].st = "scheduled"})

\* C27: with every registration made for a different callback, a
\* 'midimessage' event invokes each callback whose disposer has not been
\* called exactly once and no other callback.
C27_EachListenerOnce ==
  (/\ midiLast.op = "midimessage"
   /\ \A q, r \in 1..Len(midiRegs) : midiRegs[q].cb = midiRegs[r].cb => q = r)
    => \A c \in MidiCallbacks :
         midiLast.counts[c] = IF c \in MidiRegistered THEN 1 ELSE 0

\* C28: when stopScanning() has returned, isReading is false and no native
\* scan started by startScanning is still under way.
C28_StopAbortsScan ==
  nfcLast.op = "stopScanning"
    => (/\ ~nfcState.isReading
        /\ \A i \in 1..Len(nfcScans) : nfcScans[i].phase # "scanning")

\* The entries recorded since the last clearHistory: those logged with the
\* history enabled, in the order they were logged.
ConRecorded ==
  [k \in 1..Len(SelectSeq(conLogged, LAMBDA l : l.enabled)) |->
     SelectSeq(conLogged, LAMBDA l : l.enabled)[k].entry]

\* C29: between calls, with sizes >= 0, the history has at most
\* maxHistorySize entries and they are the most recent of the entries logged
\* with the history enabled, in the order they were logged.
C29_HistoryBounded ==
  conPc = "idle"
    => (/\ Len(conHistory) <= conState.maxHistorySize
        /\ IsSuffix(conHistory, ConRecorded))

\* An entry was evicted, and one was logged with the history off.
C29_Witness ==
  /\ conPc = "idle"
  /\ conHistory # <<>>
  /\ Len(conHistory) = conState.maxHistorySize
  /\ conHistory[1].n > 1
  /\ Len(ConRecorded) > Len(conHistory)
  /\ \E k \in 1..Len(conLogged) : ~conLogged[k].enabled

\* C30: setMaxHistorySize(size) terminates: the loop it enters is left.
C30_SetMaxTerminates == (conPc = "while") ~> (conPc = "idle")

SpecHID == InitHID /\ [][HidNext]_vars
SpecVis == InitVis /\ [][VisNext]_vars
SpecFs == InitFs /\ [][FsNext]_vars
SpecRtc == InitRtc /\ [][RtcNext]_vars
SpecIdle == InitIdle /\ [][IdleNext]_vars
SpecWl == InitWl /\ [][WlNext]_vars
SpecBg == InitBg /\ [][BgNext]_vars
SpecSched == InitSched /\ [][SchedNext]_vars
SpecLs == InitLs /\ [][LsNext]_vars
SpecBc == InitBc /\ [][BcNext]_vars
SpecClip == InitClip /\ [][ClipNext]_vars
SpecLk == InitLk /\ [][LkNext]_vars
SpecMr == InitMr /\ [][MrNext]_vars
SpecNet == InitNet /\ [][NetNext]_vars
SpecCtor == InitCtor /\ [][CtorNext]_vars
SpecMs == InitMs /\ [][MsNext]_vars
SpecMidi == InitMidi /\ [][MidiNext]_vars
SpecNfc == InitNfc /\ [][NfcNext]_vars
SpecCon == InitCon /\ [][ConNext]_vars

\* A call that has begun runs on: the loop of setMaxHistorySize keeps turning
\* and returns when its condition is false.
SpecConFair ==
  /\ InitCon
  /\ [][ConNext]_vars
  /\ WF_vars(ConWhileShift /\ UNCHANGED conOthers)
  /\ WF_vars(ConWhileExit /\ UNCHANGED conOthers)

=============================================================================
